---- MODULE Spec2Model ----
(***************************************************************************)
(* Model of auto_dev.protocols: the scope adapter (adapters.py), the type  *)
(* resolver and the codec generator (formatter.py).  A schema file is a    *)
(* proto_schema_parser AST; the adapter tree is built from it, type names  *)
(* are resolved against it, and the encode/decode functions generated for  *)
(* a message are run on model instances and wire objects.                  *)
(***************************************************************************)
EXTENDS Integers, Sequences, FiniteSets, TLC

VARIABLES
    file_ast,       \* the parsed ast.File handed to FileAdapter.from_file
    file_adapter,   \* the FileAdapter tree (NoAdapter before from_file ran)
    pc,             \* the step reached: "parsed", "adapted", "failed", "resolved", ...
    q_scope,        \* the scope of the last qualified_type call (a reference)
    q_name,         \* the type name of the last qualified_type call
    q_result,       \* the string the last qualified_type call returned
    host,           \* reference to the message whose codec is run
    model_in,       \* the model instance given to encode
    wire,           \* the wire object (protobuf message) encode wrote / decode reads
    wire_writes,    \* the wire fields encode assigned, in order
    decode_env,     \* the local names bound by the body of decode
    model_out,      \* the model instance decode returned
    err,            \* the exception raised by the last call, or "ok"
    err_arg,        \* the argument of that exception
    render_out,     \* what the last render call returned
    tool_exit,      \* the exit status protoc ends with when create() runs it
    written,        \* the files create() has written so far, in order
    annotation,     \* the argument of parse_annotation, a sequence of characters
    annotation_out, \* what parse_annotation returned, or the exception it raised
    manager,        \* the rollback context manager in use: "on_exit" or "on_exception"
    rb_pc,          \* the line of the context manager reached
    directory,      \* the tree below `directory`
    entry_tree,     \* the tree below `directory` when the context was entered
    backup,         \* the tree below `backup`, NoTree when it does not exist
    temp_dirs,      \* the number of directories made by tempfile.mkdtemp that exist
    cwd,            \* the working directory of the process
    old_dir,        \* chdir's old_dir
    sigmask,        \* the signal mask of the thread
    original_mask,  \* mask's original_mask
    exc,            \* the exception in flight, "none" when there is none
    block_exc,      \* the exception the block raised, "none" when it ended normally
    ops             \* the number of file system operations the block has made

codec_vars == <<file_ast, file_adapter, pc, q_scope, q_name, q_result,
                host, model_in, wire, wire_writes, decode_env, model_out, err,
                err_arg, render_out, tool_exit, written>>

annotation_vars == <<annotation, annotation_out>>

rollback_vars == <<manager, rb_pc, directory, entry_tree, backup, temp_dirs, cwd, old_dir,
                   sigmask, original_mask, exc, block_exc, ops>>

vars == <<codec_vars, annotation_vars, rollback_vars>>

-----------------------------------------------------------------------------
(* Bounds of the model.                                                    *)

\* longest sequence held by a repeated field of a model instance
MaxRepeated == 2

\* a local name: `value` is computed once and K is applied to it
bind(value, K(_)) == K(value)

-----------------------------------------------------------------------------
(* proto_schema_parser.ast nodes.                                          *)

Field(n, t, c) == [kind |-> "Field", name |-> n, type |-> t, cardinality |-> c]

EnumValue(n, num) == [name |-> n, number |-> num]

Enum(n, vals) == [kind |-> "Enum", name |-> n, elements |-> vals]

Message(n, els) == [kind |-> "Message", name |-> n, elements |-> els]

OneOf(n, els) == [kind |-> "OneOf", name |-> n, elements |-> els]

MapField(n, k, v) == [kind |-> "MapField", name |-> n, key_type |-> k, value_type |-> v]

Comment(t) == [kind |-> "Comment", text |-> t]

File(els) == [kind |-> "File", file_elements |-> els]

\* FieldCardinality; "None" is a field without a cardinality keyword
Cardinalities == {"REQUIRED", "OPTIONAL", "REPEATED", "None"}

-----------------------------------------------------------------------------
(* References between adapters (file, parent): the root file, a message    *)
(* named by its path of indices through the messages lists, or None.       *)

NoneRef == [ref |-> "None"]

FileRef == [ref |-> "File"]

MsgRef(path) == [ref |-> "Message", path |-> path]

NoAdapter == [kind |-> "NoAdapter"]

-----------------------------------------------------------------------------
(* adapters.py                                                             *)

\* camel_to_snake of the class names of MessageElement and FileElement
camel_to_snake(name) ==
    CASE name = "Comment" -> "comment"
      [] name = "Field" -> "field"
      [] name = "Group" -> "group"
      [] name = "OneOf" -> "one_of"
      [] name = "Option" -> "option"
      [] name = "ExtensionRange" -> "extension_range"
      [] name = "Reserved" -> "reserved"
      [] name = "Message" -> "message"
      [] name = "Enum" -> "enum"
      [] name = "Extension" -> "extension"
      [] name = "MapField" -> "map_field"
      [] name = "Import" -> "import"
      [] name = "Package" -> "package"
      [] name = "Service" -> "service"

\* grouped_elements[key]: the elements appended under key, in loop order
RECURSIVE grouped_elements(_, _, _)
grouped_elements(elements, keys, key) ==
    IF elements = <<>> THEN <<>>
    ELSE (IF Head(keys) = key THEN <<Head(elements)>> ELSE <<>>)
         \o grouped_elements(Tail(elements), Tail(keys), key)

\* mutant: the nested message is built without its parents' prefix
nested_prefix_dropped(message, parent_prefix) == ""

\* the prefix from_message hands to the messages nested in `message`
nested_prefix(message, parent_prefix) == parent_prefix \o message.name \o "."

RECURSIVE from_message(_, _)
from_message(message, parent_prefix) ==
    LET n == Len(message.elements)
        keys == [i \in 1..n |-> camel_to_snake(message.elements[i].kind)]
        elements == [i \in 1..n |->
            IF message.elements[i].kind = "Message"
            THEN from_message(message.elements[i], nested_prefix(message, parent_prefix))
            ELSE message.elements[i]]
    IN  [kind |-> "MessageAdapter",
         file |-> NoneRef,
         parent |-> NoneRef,
         name |-> message.name,
         fully_qualified_name |-> parent_prefix \o message.name,
         elements |-> elements,
         comments |-> grouped_elements(elements, keys, "comment"),
         fields |-> grouped_elements(elements, keys, "field"),
         groups |-> grouped_elements(elements, keys, "group"),
         oneofs |-> grouped_elements(elements, keys, "one_of"),
         options |-> grouped_elements(elements, keys, "option"),
         extension_ranges |-> grouped_elements(elements, keys, "extension_range"),
         reserved |-> grouped_elements(elements, keys, "reserved"),
         messages |-> grouped_elements(elements, keys, "message"),
         enums |-> grouped_elements(elements, keys, "enum"),
         extensions |-> grouped_elements(elements, keys, "extension"),
         map_fields |-> grouped_elements(elements, keys, "map_field")]

\* mutant: the enums of the nested messages are counted as the scope's own
enum_names_inherited(adapter) ==
    {adapter.enums[i].name : i \in 1..Len(adapter.enums)}
    \cup UNION {{adapter.messages[k].enums[i].name : i \in 1..Len(adapter.messages[k].enums)}
                    : k \in 1..Len(adapter.messages)}

\* MessageAdapter.enum_names and FileAdapter.enum_names
enum_names(adapter) == {adapter.enums[i].name : i \in 1..Len(adapter.enums)}

\* MessageAdapter.message_names and FileAdapter.message_names
message_names(adapter) == {adapter.messages[i].name : i \in 1..Len(adapter.messages)}

\* The adapters of a messages list are the objects held in the elements list:
\* elements with its k-th adapter replaced by messages[k].
shared_elements(elements, messages) ==
    [j \in 1..Len(elements) |->
        IF elements[j].kind = "MessageAdapter"
        THEN messages[Cardinality({i \in 1..j : elements[i].kind = "MessageAdapter"})]
        ELSE elements[j]]

\* mutant: only the message itself is given its references, not the nested ones
set_parent_shallow(message, parent, path) ==
    [message EXCEPT !.file = FileRef, !.parent = parent]

\* set_parent of from_file; path names `message` itself
RECURSIVE set_parent(_, _, _)
set_parent(message, parent, path) ==
    LET messages == [i \in 1..Len(message.messages) |->
                        set_parent(message.messages[i], MsgRef(path), Append(path, i))]
    IN  [message EXCEPT !.file = FileRef,
                        !.parent = parent,
                        !.messages = messages,
                        !.elements = shared_elements(message.elements, messages)]

from_file(file) ==
    LET n == Len(file.file_elements)
        keys == [i \in 1..n |-> camel_to_snake(file.file_elements[i].kind)]
        file_elements == [i \in 1..n |->
            IF file.file_elements[i].kind = "Message"
            THEN from_message(file.file_elements[i], "")
            ELSE file.file_elements[i]]
        unparented == grouped_elements(file_elements, keys, "message")
        messages == [i \in 1..Len(unparented) |-> set_parent(unparented[i], FileRef, <<i>>)]
    IN  [kind |-> "FileAdapter",
         file_elements |-> shared_elements(file_elements, messages),
         imports |-> grouped_elements(file_elements, keys, "import"),
         packages |-> grouped_elements(file_elements, keys, "package"),
         options |-> grouped_elements(file_elements, keys, "option"),
         messages |-> messages,
         enums |-> grouped_elements(file_elements, keys, "enum"),
         extensions |-> grouped_elements(file_elements, keys, "extension"),
         services |-> grouped_elements(file_elements, keys, "service"),
         comments |-> grouped_elements(file_elements, keys, "comment")]

\* MessageElement.__args__: the kinds from_message keeps a list for
MessageElementTypes ==
    {"Comment", "Field", "Group", "OneOf", "Option", "ExtensionRange", "Reserved",
     "Message", "Enum", "Extension", "MapField"}

\* FileElement.__args__: the kinds from_file keeps a list for
FileElementTypes ==
    {"Import", "Package", "Option", "Message", "Enum", "Extension", "Service", "Comment"}

\* mutant: an element without a list is left out of the groups and no error is raised
missing_key_skipped(key, types) == ""

\* grouped_elements[key] of the loop body: the key of the KeyError, "" when the list exists
missing_key(key, types) ==
    IF key \in {camel_to_snake(t) : t \in types} THEN "" ELSE key

\* the key of the first KeyError of the loops of from_file / from_message, "" when none:
\* a nested message is converted before the element is appended
RECURSIVE key_error(_, _)
key_error(elements, types) ==
    IF elements = <<>> THEN ""
    ELSE bind(IF Head(elements).kind = "Message" /\ "Message" \in types
              THEN key_error(Head(elements).elements, MessageElementTypes)
              ELSE missing_key(camel_to_snake(Head(elements).kind), types),
              LAMBDA key : IF key # "" THEN key ELSE key_error(Tail(elements), types))

\* FileAdapter.from_file with its exception: the adapter, or the KeyError raised
FileAdapter_from_file(file) ==
    bind(key_error(file.file_elements, FileElementTypes),
         LAMBDA key :
            IF key = "" THEN [err |-> "ok", arg |-> "", adapter |-> from_file(file)]
            ELSE [err |-> "KeyError", arg |-> key, adapter |-> NoAdapter])

\* the MessageAdapter a path names, from the root FileAdapter
RECURSIVE message_at(_, _)
message_at(adapter, path) ==
    IF path = <<>> THEN adapter
    ELSE message_at(adapter.messages[Head(path)], Tail(path))

\* the paths of every MessageAdapter below adapter (itself, at prefix, excluded)
RECURSIVE message_paths(_, _)
message_paths(adapter, prefix) ==
    UNION {{Append(prefix, i)} \cup message_paths(adapter.messages[i], Append(prefix, i))
           : i \in 1..Len(adapter.messages)}

\* the object a reference points to
deref(fa, r) ==
    CASE r.ref = "Message" -> message_at(fa, r.path)
      [] r.ref = "File" -> fa
      [] r.ref = "None" -> NoAdapter

-----------------------------------------------------------------------------
(* primitives.py: the scalar-type table                                    *)

PRIMITIVE_TYPE_MAP ==
    [t \in {"int32", "string", "bool"} |->
        CASE t = "int32" -> "Int32"
          [] t = "string" -> "String"
          [] t = "bool" -> "Bool"]

\* dict.get(key, default)
primitive_get(key, default) ==
    IF key \in DOMAIN PRIMITIVE_TYPE_MAP THEN PRIMITIVE_TYPE_MAP[key] ELSE default

-----------------------------------------------------------------------------
(* formatter.py: qualified_type                                            *)

NoDefinition == [found |-> FALSE, name |-> ""]

\* mutant: the search stops at the scope it starts from
next_scope_none(scope) == NoneRef

\* the scope find_definition searches after `scope`
next_scope(scope) == scope.parent

\* mutant: the short name of the scope is used
scoped_name_short(scope, type_name) == scope.name \o "." \o type_name

\* the name returned for a type declared in `scope`
scoped_name(scope, type_name) == scope.fully_qualified_name \o "." \o type_name

\* mutant: the search goes on into the file's top-level names
RECURSIVE find_definition_in_file(_, _, _)
find_definition_in_file(fa, scope, type_name) ==
    IF scope.ref = "None" THEN NoDefinition
    ELSE IF scope.ref = "File"
    THEN IF type_name \in enum_names(fa) \/ type_name \in message_names(fa)
         THEN [found |-> TRUE, name |-> type_name]
         ELSE NoDefinition
    ELSE LET s == message_at(fa, scope.path)
         IN  IF type_name \in enum_names(s) \/ type_name \in message_names(s)
             THEN [found |-> TRUE, name |-> scoped_name(s, type_name)]
             ELSE find_definition_in_file(fa, next_scope(s), type_name)

RECURSIVE find_definition(_, _, _)
find_definition(fa, scope, type_name) ==
    IF scope.ref = "None" \/ scope.ref = "File" THEN NoDefinition
    ELSE LET s == message_at(fa, scope.path)
         IN  IF type_name \in enum_names(s) \/ type_name \in message_names(s)
             THEN [found |-> TRUE, name |-> scoped_name(s, type_name)]
             ELSE find_definition(fa, next_scope(s), type_name)

\* mutant: an unknown name is mapped to a placeholder
unscoped_name_object(type_name) ==
    IF type_name \in DOMAIN PRIMITIVE_TYPE_MAP THEN PRIMITIVE_TYPE_MAP[type_name] ELSE "object"

\* the value returned when no message scope declares type_name
unscoped_name(type_name) == primitive_get(type_name, type_name)

qualified_type(fa, adapter, type_name) ==
    LET qualified_name == find_definition(fa, adapter, type_name)
    IN  IF qualified_name.found THEN qualified_name.name ELSE unscoped_name(type_name)

-----------------------------------------------------------------------------
(* The schema files the model compiles.  Every file is accepted by the     *)
(* wire-format compiler, which create() runs first: sibling declarations   *)
(* have distinct names and every referenced type is declared in scope.     *)
(*                                                                         *)
(*   enum Color { RED = 0; BLUE = 2; }                                     *)
(*   message Leaf { optional int32 v; }                                    *)
(*   [message int32 { }]                                 -- prim_clash     *)
(*   message Outer {                                                       *)
(*     enum Shade { DARK = 1; LIGHT = 3; }                                 *)
(*     [message Leaf { required string s; }]             -- shadow_msg     *)
(*     [message bool { }]                                -- prim_clash     *)
(*     [subject]                                         -- host is Outer  *)
(*     message Inner {                                                     *)
(*       enum Tone { LOW = 0; HIGH = 5; }                                  *)
(*       [enum Color { GREY = 0; CYAN = 1; }]            -- shadow_enum    *)
(*       [subject]                                       -- host is Inner  *)
(*       message Deep { required int32 d; }                                *)
(*     }                                                                   *)
(*   }                                                                     *)

TopColor == Enum("Color", <<EnumValue("RED", 0), EnumValue("BLUE", 2)>>)

TopLeaf == Message("Leaf", <<Field("v", "int32", "OPTIONAL")>>)

Shade == Enum("Shade", <<EnumValue("DARK", 1), EnumValue("LIGHT", 3)>>)

Tone == Enum("Tone", <<EnumValue("LOW", 0), EnumValue("HIGH", 5)>>)

InnerColor == Enum("Color", <<EnumValue("GREY", 0), EnumValue("CYAN", 1)>>)

OuterLeaf == Message("Leaf", <<Field("s", "string", "REQUIRED")>>)

Deep == Message("Deep", <<Field("d", "int32", "REQUIRED")>>)

Opt(flag, element) == IF flag THEN <<element>> ELSE <<>>

Inner(shadow_enum, subject) ==
    Message("Inner",
        <<Comment("inner"), Tone>> \o Opt(shadow_enum, InnerColor) \o subject \o <<Deep>>)

Outer(shadow_enum, shadow_msg, prim_clash, host_top, subject) ==
    Message("Outer",
        <<Shade>> \o Opt(shadow_msg, OuterLeaf) \o Opt(prim_clash, Message("bool", <<>>))
        \o (IF host_top THEN subject ELSE <<>>)
        \o <<Inner(shadow_enum, IF host_top THEN <<>> ELSE subject)>>)

SchemaFile(shadow_enum, shadow_msg, prim_clash, host_top, subject) ==
    File(<<[kind |-> "Package", name |-> "demo"], TopColor, TopLeaf>>
         \o Opt(prim_clash, Message("int32", <<>>))
         \o <<Outer(shadow_enum, shadow_msg, prim_clash, host_top, subject)>>)

\* the type names a field of the host may reference
FieldTypes(host_top) ==
    IF host_top THEN {"int32", "string", "Color", "Shade", "Leaf", "Inner"}
    ELSE {"int32", "string", "Color", "Shade", "Tone", "Leaf", "Deep"}

OneOfTypes(host_top) ==
    {<<"int32", "string">>, <<"int32", "int32">>, <<"Color", "string">>,
     <<"string", IF host_top THEN "Shade" ELSE "Tone">>, <<"Leaf", "int32">>}

MapValueTypes(host_top) == FieldTypes(host_top) \ {"string"}

\* the element of the host message whose codec is exercised
Subjects(host_top) ==
    {Field("x", t, c) : t \in FieldTypes(host_top), c \in Cardinalities}
    \cup {OneOf("pick", <<Field("a", p[1], "None"), Field("b", p[2], "None")>>)
            : p \in OneOfTypes(host_top)}
    \cup {MapField("m", "string", t) : t \in MapValueTypes(host_top)}

Files ==
    {SchemaFile(se, sm, pcl, ht, <<el>>) :
        se \in BOOLEAN, sm \in BOOLEAN, pcl \in BOOLEAN, ht \in {TRUE}, el \in Subjects(TRUE)}
    \cup
    {SchemaFile(se, sm, pcl, ht, <<el>>) :
        se \in BOOLEAN, sm \in BOOLEAN, pcl \in BOOLEAN, ht \in {FALSE}, el \in Subjects(FALSE)}

\* the type names handed to qualified_type
TypeNames ==
    {"Color", "Shade", "Tone", "Leaf", "Deep", "Inner", "Outer",
     "int32", "string", "bool", "Ext"}

\* every scope of the tree: the file and each message
Scopes(fa) == {FileRef} \cup {MsgRef(p) : p \in message_paths(fa, <<>>)}

-----------------------------------------------------------------------------
(* The generated module at run time: render() emits one class per message  *)
(* and enum, the classes of nested types inside the class of the message   *)
(* that declares them, so a class is reached by the dotted path of class   *)
(* names from the module's globals.                                        *)

\* the dotted path of the class rendered for the message at `path`
RECURSIVE class_path(_, _)
class_path(adapter, path) ==
    IF Len(path) = 1 THEN adapter.messages[path[1]].name
    ELSE adapter.messages[path[1]].name \o "." \o class_path(adapter.messages[path[1]], Tail(path))

EnumClass(name, enum) ==
    [kind |-> "enum", name |-> name,
     tags |-> {enum.elements[i].number : i \in 1..Len(enum.elements)},
     first |-> enum.elements[1].number]

\* every class of the generated module
classes(fa) ==
    {EnumClass(fa.enums[i].name, fa.enums[i]) : i \in 1..Len(fa.enums)}
    \cup UNION {
        {[kind |-> "message", name |-> class_path(fa, p), path |-> p]}
        \cup {EnumClass(class_path(fa, p) \o "." \o message_at(fa, p).enums[i].name,
                        message_at(fa, p).enums[i])
                : i \in 1..Len(message_at(fa, p).enums)}
        : p \in message_paths(fa, <<>>)}

PrimitiveClasses == {PRIMITIVE_TYPE_MAP[t] : t \in DOMAIN PRIMITIVE_TYPE_MAP}

\* evaluation of a dotted name in a generated function: the class, or NameError
\* (AttributeError when only a prefix of the path exists)
py_lookup(fa, expr) ==
    IF expr \in PrimitiveClasses THEN [kind |-> "primitive", name |-> expr]
    ELSE IF \E c \in classes(fa) : c.name = expr
         THEN CHOOSE c \in classes(fa) : c.name = expr
         ELSE [kind |-> "NameError", name |-> expr]

-----------------------------------------------------------------------------
(* Values of the generated model types.                                    *)

\* None
NoValue == [none |-> TRUE]

IntV(n) == [int |-> n]

StrV(t) == [str |-> t]

EnumV(cls, tag) == [enum |-> cls, tag |-> tag]

MsgV(cls, attrs) == [msg |-> cls, attrs |-> attrs]

ListV(items) == [list |-> items]

DictV(f) == [dict |-> f]

IsNone(v) == "none" \in DOMAIN v

\* the class a value is an instance of
py_type(v) ==
    IF "int" \in DOMAIN v THEN "Int32"
    ELSE IF "str" \in DOMAIN v THEN "String"
    ELSE IF "enum" \in DOMAIN v THEN v.enum
    ELSE IF "msg" \in DOMAIN v THEN v.msg
    ELSE "object"

IntValues == {0, 7}

StrValues == {"", "hi"}

MapKeys == {"k1", "k2"}

\* sequences over S of length at most n
RECURSIVE SeqsUpTo(_, _)
SeqsUpTo(S, n) ==
    IF n = 0 THEN {<<>>}
    ELSE LET shorter == SeqsUpTo(S, n - 1)
         IN  shorter \cup {Append(q, x) : q \in {r \in shorter : Len(r) = n - 1}, x \in S}

\* the functions from a subset of MapKeys to S
PartialMaps(S) == UNION {[K -> S] : K \in SUBSET MapKeys}

\* render_field: the annotation of a Field attribute
render_field(fa, field, message) ==
    [type |-> qualified_type(fa, message, field.type), cardinality |-> field.cardinality]

\* the attributes of the class rendered for a message: name and annotation
RECURSIVE render_annotations(_, _, _)
render_annotations(fa, message, elements) ==
    IF elements = <<>> THEN <<>>
    ELSE LET e == Head(elements)
             rest == render_annotations(fa, message, Tail(elements))
         IN  CASE e.kind = "Field" ->
                    <<[name |-> e.name, shape |-> "field",
                       types |-> <<render_field(fa, e, message)>>]>> \o rest
               [] e.kind = "OneOf" ->
                    <<[name |-> e.name, shape |-> "union",
                       types |-> [i \in 1..Len(e.elements) |->
                                    render_field(fa, e.elements[i], message)]]>> \o rest
               [] e.kind = "MapField" ->
                    <<[name |-> e.name, shape |-> "dict",
                       types |-> <<[type |-> qualified_type(fa, message, e.value_type),
                                    cardinality |-> "None"]>>]>> \o rest
               [] OTHER -> rest

\* the instances of the generated model types
RECURSIVE class_values(_, _)
RECURSIVE instances(_, _)

\* the values an annotation T, T | None or list[T] admits
annotated_values(fa, rendered) ==
    LET base == class_values(fa, rendered.type)
    IN  CASE rendered.cardinality = "OPTIONAL" -> base \cup {NoValue}
          [] rendered.cardinality = "REPEATED" -> {ListV(q) : q \in SeqsUpTo(base, MaxRepeated)}
          [] OTHER -> base

attribute_values(fa, attr) ==
    CASE attr.shape = "field" -> annotated_values(fa, attr.types[1])
      [] attr.shape = "union" ->
            UNION {annotated_values(fa, attr.types[i]) : i \in 1..Len(attr.types)}
      [] attr.shape = "dict" ->
            {DictV(f) : f \in PartialMaps(class_values(fa, attr.types[1].type))}

\* the records over the attributes, one value per attribute
RECURSIVE attribute_records(_, _)
attribute_records(fa, attrs) ==
    IF attrs = <<>> THEN {<<>>}
    ELSE {(Head(attrs).name :> v) @@ r :
            v \in attribute_values(fa, Head(attrs)), r \in attribute_records(fa, Tail(attrs))}

class_values(fa, cls) ==
    LET c == py_lookup(fa, cls)
    IN  CASE c.kind = "primitive" ->
                (IF cls = "Int32" THEN {IntV(n) : n \in IntValues}
                 ELSE IF cls = "String" THEN {StrV(t) : t \in StrValues}
                 ELSE {})
          [] c.kind = "enum" -> {EnumV(c.name, t) : t \in c.tags}
          [] c.kind = "message" -> instances(fa, c.path)
          [] OTHER -> {}

instances(fa, path) ==
    LET message == message_at(fa, path)
    IN  {MsgV(class_path(fa, path), r) :
            r \in attribute_records(fa,
                    render_annotations(fa, MsgRef(path), message.elements))}

-----------------------------------------------------------------------------
(* The wire objects: the messages of the module protoc generates from the  *)
(* same schema.  A message is a function from field names to cells; a cell *)
(* holds the field's declared type, its value and, for a singular field,   *)
(* whether it is marked present and the oneof it belongs to.               *)

\* protoc's resolution of a field's type name: a scalar keyword, else the
\* declaration of the innermost enclosing message, else the top-level one
proto_type(fa, path, type_name) ==
    IF type_name = "int32" THEN [t |-> "int"]
    ELSE IF type_name = "string" THEN [t |-> "str"]
    ELSE IF type_name = "bool" THEN [t |-> "bool"]
    ELSE LET candidate(k) == IF k = 0 THEN type_name
                             ELSE class_path(fa, SubSeq(path, 1, k)) \o "." \o type_name
             declared == {k \in 0..Len(path) : py_lookup(fa, candidate(k)).kind # "NameError"}
             c == py_lookup(fa, candidate(CHOOSE k \in declared : \A j \in declared : j <= k))
         IN  IF c.kind = "enum" THEN [t |-> "enum", tags |-> c.tags, first |-> c.first]
             ELSE [t |-> "msg", path |-> c.path]

RECURSIVE fresh_wire(_, _)

\* the value read from a field that was never set
default_value(fa, of) ==
    CASE of.t = "int" -> IntV(0)
      [] of.t = "str" -> StrV("")
      [] of.t = "bool" -> IntV(0)
      [] of.t = "enum" -> IntV(of.first)
      [] of.t = "msg" -> [wmsg |-> fresh_wire(fa, of.path)]

single_cell(fa, of, oneof) ==
    [c |-> "single", of |-> of, set |-> FALSE, v |-> default_value(fa, of), oneof |-> oneof]

field_cell(fa, path, field, oneof) ==
    IF field.cardinality = "REPEATED"
    THEN [c |-> "rep", of |-> proto_type(fa, path, field.type), v |-> <<>>]
    ELSE single_cell(fa, proto_type(fa, path, field.type), oneof)

RECURSIVE wire_fields(_, _, _)
wire_fields(fa, path, elements) ==
    IF elements = <<>> THEN <<>>
    ELSE LET e == Head(elements)
             rest == wire_fields(fa, path, Tail(elements))
         IN  CASE e.kind = "Field" -> (e.name :> field_cell(fa, path, e, "")) @@ rest
               [] e.kind = "OneOf" ->
                    [n \in {e.elements[i].name : i \in 1..Len(e.elements)} |->
                        field_cell(fa, path,
                            e.elements[CHOOSE i \in 1..Len(e.elements) : e.elements[i].name = n],
                            e.name)] @@ rest
               [] e.kind = "MapField" ->
                    (e.name :> [c |-> "map", of |-> proto_type(fa, path, e.value_type),
                                v |-> <<>>]) @@ rest
               [] OTHER -> rest

\* a new message object of the class protoc generates for the message at path
fresh_wire(fa, path) == wire_fields(fa, path, message_at(fa, path).elements)

\* outcome of a generated function or of one of its statements
Done(obj, writes) == [err |-> "ok", obj |-> obj, writes |-> writes]

Raise(e, obj, writes) == [err |-> e, obj |-> obj, writes |-> writes]

\* the scalar a wire field of type `of` stores for a Python value
scalar_for(of, value) ==
    IF IsNone(value) THEN [err |-> "TypeError"]
    ELSE CASE of.t \in {"int", "bool"} ->
                (IF "int" \in DOMAIN value THEN [err |-> "ok", v |-> value]
                 ELSE IF "enum" \in DOMAIN value THEN [err |-> "ok", v |-> IntV(value.tag)]
                 ELSE [err |-> "TypeError"])
           [] of.t = "enum" ->
                (LET n == IF "int" \in DOMAIN value THEN value.int
                          ELSE IF "enum" \in DOMAIN value THEN value.tag ELSE -1
                 IN  IF ~("int" \in DOMAIN value \/ "enum" \in DOMAIN value)
                     THEN [err |-> "TypeError"]
                     ELSE IF n \in of.tags THEN [err |-> "ok", v |-> IntV(n)]
                     ELSE [err |-> "ValueError"])
           [] of.t = "str" ->
                (IF "str" \in DOMAIN value THEN [err |-> "ok", v |-> value]
                 ELSE [err |-> "TypeError"])
           [] OTHER -> [err |-> "TypeError"]

\* the member of the oneof assigned last keeps its value, its siblings are cleared
clear_siblings(fa, obj, name) ==
    [n \in DOMAIN obj |->
        IF /\ n # name
           /\ obj[n].c = "single"
           /\ obj[name].oneof # ""
           /\ obj[n].oneof = obj[name].oneof
        THEN [obj[n] EXCEPT !.set = FALSE, !.v = default_value(fa, obj[n].of)]
        ELSE obj[n]]

\* proto_obj.<name> = value
pb_setattr(fa, obj, name, value) ==
    IF obj[name].c # "single" \/ obj[name].of.t = "msg"
    THEN Raise("AttributeError", obj, <<>>)
    ELSE LET s == scalar_for(obj[name].of, value)
         IN  IF s.err # "ok" THEN Raise(s.err, obj, <<>>)
             ELSE Done(clear_siblings(fa,
                           [obj EXCEPT ![name] = [@ EXCEPT !.set = TRUE, !.v = s.v]], name),
                       <<name>>)

\* mutant: each item is inserted at the front of the container
prepended(container, items) ==
    [i \in 1..Len(items) |-> items[Len(items) + 1 - i]] \o container

\* the container after `for item in items: container.append(item)`
appended(container, items) == container \o items

\* proto_obj.<name>.append(item) for each item
pb_extend(obj, name, items) ==
    IF obj[name].c # "rep" \/ obj[name].of.t = "msg"
    THEN IF items = <<>> THEN Done(obj, <<>>) ELSE Raise("AttributeError", obj, <<>>)
    ELSE LET converted == [i \in 1..Len(items) |-> scalar_for(obj[name].of, items[i])]
         IN  IF \E i \in 1..Len(items) : converted[i].err # "ok"
             THEN Raise("TypeError", obj, <<>>)
             ELSE Done([obj EXCEPT ![name].v =
                            appended(@, [i \in 1..Len(items) |-> converted[i].v])], <<>>)

\* proto_obj.HasField(name)
pb_hasfield(obj, name) == obj[name].c = "single" /\ obj[name].set

-----------------------------------------------------------------------------
(* formatter.py: the encoder.  render_encoder yields the statements of the *)
(* generated encode(proto_obj, <message>) in order; run_encode executes    *)
(* them on a wire object and a model instance.                             *)

\* the test that selects direct assignment for a field or map value type
is_plain(fa, type_name, message) ==
    \/ type_name \in DOMAIN PRIMITIVE_TYPE_MAP
    \/ type_name \in enum_names(message)
    \/ type_name \in enum_names(deref(fa, message.file))

encode_field(fa, element, path) ==
    IF is_plain(fa, element.type, message_at(fa, path))
    THEN CASE element.cardinality = "REPEATED" -> [op |-> "append_each", name |-> element.name]
           [] element.cardinality = "OPTIONAL" ->
                [op |-> "assign_if_not_none", name |-> element.name]
           [] OTHER -> [op |-> "assign", name |-> element.name]
    ELSE LET qualified == qualified_type(fa, MsgRef(path), element.type)
         IN  CASE element.cardinality = "REPEATED" ->
                    [op |-> "encode_each_add", name |-> element.name, qualified |-> qualified]
               [] element.cardinality = "OPTIONAL" ->
                    [op |-> "encode_copy_if_not_none", name |-> element.name,
                     qualified |-> qualified]
               [] OTHER ->
                    [op |-> "encode_into", name |-> element.name, qualified |-> qualified]

\* the class named in the isinstance test of a oneof member
oneof_test_type(e) == primitive_get(e.type, e.type)

\* mutant: an element without a case is skipped
unexpected_skipped(element) == [op |-> "comment"]

\* case _: raise TypeError(msg)
unexpected(element) == [op |-> "TypeError"]

encode_element(fa, element, path) ==
    LET message == message_at(fa, path)
    IN  CASE element.kind = "Comment" -> [op |-> "comment"]
          [] element.kind = "Field" -> encode_field(fa, element, path)
          [] element.kind = "OneOf" ->
                (IF \E i \in 1..Len(element.elements) :
                        {"type", "name"} \ DOMAIN element.elements[i] # {}
                 THEN [op |-> "AttributeError"]
                 ELSE [op |-> "oneof_isinstance", name |-> element.name,
                       branches |-> [i \in 1..Len(element.elements) |->
                                [type |-> oneof_test_type(element.elements[i]),
                                 name |-> element.elements[i].name]]])
          [] element.kind = "MapField" ->
                (IF element.value_type \in DOMAIN PRIMITIVE_TYPE_MAP
                 THEN [op |-> "map_assign", name |-> element.name]
                 ELSE IF element.value_type \in enum_names(deref(fa, message.file))
                 THEN [op |-> "map_assign_enum", name |-> element.name,
                       enum |-> element.value_type]
                 ELSE IF element.value_type \in enum_names(message)
                 THEN [op |-> "map_assign_enum", name |-> element.name,
                       enum |-> message.name \o "." \o element.value_type]
                 ELSE [op |-> "map_encode", name |-> element.name,
                       qualified |-> qualified_type(fa, MsgRef(path), element.value_type)])
          [] OTHER -> unexpected(element)

\* the elements a codec is generated for: nested messages and enums are left out
codec_elements(message) ==
    SelectSeq(message.elements, LAMBDA e : e.kind \notin {"MessageAdapter", "Enum"})

render_encoder(fa, path) ==
    LET elements == codec_elements(message_at(fa, path))
    IN  [i \in 1..Len(elements) |-> encode_element(fa, elements[i], path)]

\* isinstance(value, cls)
isinstance(value, cls) == py_type(value) = cls.name

\* <enum>(value): the member of the enum with the value's number
enum_call(fa, enum, value) ==
    LET c == py_lookup(fa, enum)
        n == IF "int" \in DOMAIN value THEN value.int ELSE value.tag
    IN  IF c.kind = "NameError" THEN [err |-> "NameError"]
        ELSE IF c.kind # "enum" THEN [err |-> "TypeError"]
        ELSE IF ~("int" \in DOMAIN value \/ "enum" \in DOMAIN value) \/ n \notin c.tags
        THEN [err |-> "ValueError"]
        ELSE [err |-> "ok", v |-> EnumV(c.name, n)]

RECURSIVE run_encode(_, _, _, _)

\* <qualified>.encode(proto_obj, value)
call_encode(fa, qualified, proto_obj, value) ==
    LET c == py_lookup(fa, qualified)
    IN  IF c.kind = "NameError" THEN Raise("NameError", proto_obj, <<>>)
        ELSE IF c.kind # "message" THEN Raise("AttributeError", proto_obj, <<>>)
        ELSE run_encode(fa, c.path, proto_obj, value)

\* for item in items: <qualified>.encode(proto_obj.<name>.add(), item)
RECURSIVE encode_items(_, _, _, _, _)
encode_items(fa, qualified, of, items, added) ==
    IF items = <<>> THEN Done(added, <<>>)
    ELSE bind(call_encode(fa, qualified, fresh_wire(fa, of.path), Head(items)),
              LAMBDA r :
                IF r.err # "ok" THEN Raise(r.err, added, <<>>)
                ELSE encode_items(fa, qualified, of, Tail(items),
                                  Append(added, [wmsg |-> r.obj])))

\* the chain of `if isinstance(...): proto_obj.<member> = value` of a oneof
RECURSIVE encode_branches(_, _, _, _, _)
encode_branches(fa, obj, value, branches, writes) ==
    IF branches = <<>> THEN Done(obj, writes)
    ELSE LET c == py_lookup(fa, Head(branches).type)
         IN  IF c.kind = "NameError" THEN Raise("NameError", obj, writes)
             ELSE IF isinstance(value, c)
             THEN bind(pb_setattr(fa, obj, Head(branches).name, value),
                       LAMBDA r :
                         IF r.err # "ok" THEN Raise(r.err, obj, writes)
                         ELSE encode_branches(fa, r.obj, value, Tail(branches),
                                              writes \o r.writes))
             ELSE encode_branches(fa, obj, value, Tail(branches), writes)

\* one statement of a generated encode, on proto_obj `obj` and the instance
encode_statement(fa, st, obj, instance) ==
    LET value == instance.attrs[st.name]
        cell == obj[st.name]
    IN  CASE st.op = "comment" -> Done(obj, <<>>)
          [] st.op = "assign" -> pb_setattr(fa, obj, st.name, value)
          [] st.op = "assign_if_not_none" ->
                (IF IsNone(value) THEN Done(obj, <<>>)
                 ELSE pb_setattr(fa, obj, st.name, value))
          [] st.op = "append_each" -> pb_extend(obj, st.name, value.list)
          [] st.op = "encode_into" ->
                (IF cell.c # "single" \/ cell.of.t # "msg"
                 THEN Raise("AttributeError", obj, <<>>)
                 ELSE bind(call_encode(fa, st.qualified, cell.v.wmsg, value),
                           LAMBDA r :
                             IF r.err # "ok" THEN Raise(r.err, obj, <<>>)
                             ELSE Done([obj EXCEPT ![st.name] =
                                        [@ EXCEPT !.v = [wmsg |-> r.obj],
                                                  !.set = @ \/ r.obj # cell.v.wmsg]], <<>>)))
          [] st.op = "encode_copy_if_not_none" ->
                (IF IsNone(value) THEN Done(obj, <<>>)
                 ELSE IF cell.c # "single" \/ cell.of.t # "msg"
                 THEN Raise("AttributeError", obj, <<>>)
                 ELSE bind(call_encode(fa, st.qualified,
                                       fresh_wire(fa, cell.of.path), value),
                           LAMBDA r :
                             IF r.err # "ok" THEN Raise(r.err, obj, <<>>)
                             ELSE Done([obj EXCEPT ![st.name] =
                                        [@ EXCEPT !.v = [wmsg |-> r.obj], !.set = TRUE]],
                                       <<>>)))
          [] st.op = "encode_each_add" ->
                (IF value.list = <<>> THEN Done(obj, <<>>)
                 ELSE IF cell.c # "rep" \/ cell.of.t # "msg"
                 THEN Raise("AttributeError", obj, <<>>)
                 ELSE bind(encode_items(fa, st.qualified, cell.of, value.list, cell.v),
                           LAMBDA r :
                             IF r.err # "ok" THEN Raise(r.err, obj, <<>>)
                             ELSE Done([obj EXCEPT ![st.name].v = r.obj], <<>>)))
          [] st.op = "oneof_isinstance" ->
                encode_branches(fa, obj, value, st.branches, <<>>)
          [] st.op = "map_assign" ->
                (LET d == value.dict
                     converted == [k \in DOMAIN d |-> scalar_for(cell.of, d[k])]
                 IN  IF DOMAIN d = {} THEN Done(obj, <<>>)
                     ELSE IF cell.c # "map" \/ cell.of.t = "msg"
                     THEN Raise("ValueError", obj, <<>>)
                     ELSE IF \E k \in DOMAIN d : converted[k].err # "ok"
                     THEN Raise("TypeError", obj, <<>>)
                     ELSE Done([obj EXCEPT ![st.name].v =
                                    [k \in DOMAIN d |-> converted[k].v] @@ @], <<>>))
          [] st.op = "map_assign_enum" ->
                (LET d == value.dict
                     members == [k \in DOMAIN d |-> enum_call(fa, st.enum, d[k])]
                     bad == {k \in DOMAIN d : members[k].err # "ok"}
                 IN  IF DOMAIN d = {} THEN Done(obj, <<>>)
                     ELSE IF bad # {}
                     THEN Raise(members[CHOOSE k \in bad : TRUE].err, obj, <<>>)
                     ELSE IF cell.c # "map" \/ cell.of.t = "msg"
                     THEN Raise("ValueError", obj, <<>>)
                     ELSE IF \E k \in DOMAIN d : scalar_for(cell.of, members[k].v).err # "ok"
                     THEN Raise("ValueError", obj, <<>>)
                     ELSE Done([obj EXCEPT ![st.name].v =
                                    [k \in DOMAIN d |-> scalar_for(cell.of, members[k].v).v]
                                        @@ @], <<>>))
          [] st.op = "map_encode" ->
                (LET d == value.dict
                     c == py_lookup(fa, st.qualified)
                     entry(k) == IF k \in DOMAIN cell.v THEN cell.v[k].wmsg
                                 ELSE fresh_wire(fa, cell.of.path)
                 IN  IF DOMAIN d = {} THEN Done(obj, <<>>)
                     ELSE IF c.kind = "NameError" THEN Raise("NameError", obj, <<>>)
                     ELSE IF c.kind # "message" THEN Raise("AttributeError", obj, <<>>)
                     ELSE IF cell.c # "map" \/ cell.of.t # "msg"
                     THEN Raise("AttributeError", obj, <<>>)
                     ELSE bind([k \in DOMAIN d |-> run_encode(fa, c.path, entry(k), d[k])],
                               LAMBDA encoded :
                                 IF \E k \in DOMAIN d : encoded[k].err # "ok"
                                 THEN Raise(encoded[CHOOSE k \in DOMAIN d :
                                                        encoded[k].err # "ok"].err, obj, <<>>)
                                 ELSE Done([obj EXCEPT ![st.name].v =
                                        [k \in DOMAIN d |-> [wmsg |-> encoded[k].obj]] @@ @],
                                        <<>>)))

\* the statements of a generated encode, in order, up to the first exception
RECURSIVE encode_statements(_, _, _, _, _)
encode_statements(fa, statements, obj, instance, writes) ==
    IF statements = <<>> THEN Done(obj, writes)
    ELSE bind(encode_statement(fa, Head(statements), obj, instance),
              LAMBDA r :
                IF r.err # "ok" THEN Raise(r.err, r.obj, writes \o r.writes)
                ELSE encode_statements(fa, Tail(statements), r.obj, instance,
                                       writes \o r.writes))

\* <Message>.encode(proto_obj, instance)
run_encode(fa, path, obj, instance) ==
    encode_statements(fa, render_encoder(fa, path), obj, instance, <<>>)

-----------------------------------------------------------------------------
(* formatter.py: the decoder.  render_decoder yields the statements of the *)
(* generated decode(cls, proto_obj) and the names handed to the            *)
(* constructor; run_decode executes them on a wire object.                 *)

decode_field(fa, field, path) ==
    IF is_plain(fa, field.type, message_at(fa, path))
    THEN CASE field.cardinality = "REPEATED" -> [op |-> "list", name |-> field.name]
           [] field.cardinality = "OPTIONAL" -> [op |-> "read_if_has", name |-> field.name]
           [] field.cardinality \in {"REQUIRED", "None"} ->
                [op |-> "read", name |-> field.name]
           [] OTHER -> [op |-> "TypeError"]
    ELSE LET qualified == qualified_type(fa, MsgRef(path), field.type)
         IN  CASE field.cardinality = "REPEATED" ->
                    [op |-> "decode_each", name |-> field.name, qualified |-> qualified]
               [] field.cardinality = "OPTIONAL" ->
                    [op |-> "decode_if_has", name |-> field.name, qualified |-> qualified]
               [] OTHER ->
                    [op |-> "decode_sub", name |-> field.name, qualified |-> qualified]

decode_element(fa, element, path) ==
    LET message == message_at(fa, path)
    IN  CASE element.kind = "Comment" -> [op |-> "comment"]
          [] element.kind = "Field" -> decode_field(fa, element, path)
          [] element.kind = "OneOf" ->
                (IF \E i \in 1..Len(element.elements) : "name" \notin DOMAIN element.elements[i]
                 THEN [op |-> "AttributeError"]
                 ELSE [op |-> "oneof_hasfield", name |-> element.name,
                       members |-> [i \in 1..Len(element.elements) |->
                                        element.elements[i].name]])
          [] element.kind = "MapField" ->
                (IF element.value_type \in DOMAIN PRIMITIVE_TYPE_MAP
                 THEN [op |-> "dict", name |-> element.name]
                 ELSE IF element.value_type \in enum_names(deref(fa, message.file))
                 THEN [op |-> "map_enum", name |-> element.name,
                       enum |-> element.value_type]
                 ELSE IF element.value_type \in enum_names(message)
                 THEN [op |-> "map_enum", name |-> element.name,
                       enum |-> message.name \o "." \o element.value_type]
                 ELSE [op |-> "map_decode", name |-> element.name,
                       qualified |-> qualified_type(fa, MsgRef(path), element.value_type)])
          [] OTHER -> unexpected(element)

\* mutant: only the Field elements are constructor arguments
constructor_kwargs_fields(elements) ==
    LET named == SelectSeq(elements, LAMBDA e : e.kind = "Field")
    IN  [i \in 1..Len(named) |-> named[i].name]

\* the names the constructor call is given, in element order
constructor_kwargs(elements) ==
    LET named == SelectSeq(elements, LAMBDA e : e.kind \in {"Field", "MapField", "OneOf"})
    IN  [i \in 1..Len(named) |-> named[i].name]

render_decoder(fa, path) ==
    LET elements == codec_elements(message_at(fa, path))
    IN  [statements |-> [i \in 1..Len(elements) |-> decode_element(fa, elements[i], path)],
         constructor |-> constructor_kwargs(message_at(fa, path).elements)]

\* outcome of a generated decode or of one of its statements
Bound(env) == [err |-> "ok", env |-> env]

Failed(e, env) == [err |-> e, env |-> env]

\* pydantic: the value an annotation of one class accepts, or a ValidationError
validate_class(fa, cls, v) ==
    LET c == py_lookup(fa, cls)
        intlike == "int" \in DOMAIN v \/ "enum" \in DOMAIN v
        n == IF "int" \in DOMAIN v THEN v.int ELSE v.tag
    IN  CASE c.kind = "primitive" ->
                (IF py_type(v) = cls THEN [err |-> "ok", v |-> v]
                 ELSE [err |-> "ValidationError"])
          [] c.kind = "enum" ->
                (IF intlike /\ n \in c.tags THEN [err |-> "ok", v |-> EnumV(c.name, n)]
                 ELSE [err |-> "ValidationError"])
          [] c.kind = "message" ->
                (IF "msg" \in DOMAIN v /\ v.msg = c.name THEN [err |-> "ok", v |-> v]
                 ELSE [err |-> "ValidationError"])
          [] OTHER -> [err |-> "ValidationError"]

validate_annotated(fa, rendered, v) ==
    CASE rendered.cardinality = "OPTIONAL" ->
            (IF IsNone(v) THEN [err |-> "ok", v |-> v]
             ELSE validate_class(fa, rendered.type, v))
      [] rendered.cardinality = "REPEATED" ->
            (IF "list" \notin DOMAIN v THEN [err |-> "ValidationError"]
             ELSE LET items == [i \in 1..Len(v.list) |->
                                    validate_class(fa, rendered.type, v.list[i])]
                  IN  IF \E i \in 1..Len(v.list) : items[i].err # "ok"
                      THEN [err |-> "ValidationError"]
                      ELSE [err |-> "ok",
                            v |-> ListV([i \in 1..Len(v.list) |-> items[i].v])])
      [] OTHER -> validate_class(fa, rendered.type, v)

validate_attribute(fa, attr, v) ==
    CASE attr.shape = "field" -> validate_annotated(fa, attr.types[1], v)
      [] attr.shape = "union" ->
            (LET exact == {i \in 1..Len(attr.types) : py_type(v) = attr.types[i].type}
                 lax == {i \in 1..Len(attr.types) :
                            validate_annotated(fa, attr.types[i], v).err = "ok"}
             IN  IF exact # {} THEN [err |-> "ok", v |-> v]
                 ELSE IF lax # {}
                 THEN validate_annotated(fa,
                        attr.types[CHOOSE i \in lax : \A j \in lax : i <= j], v)
                 ELSE [err |-> "ValidationError"])
      [] attr.shape = "dict" ->
            (IF "dict" \notin DOMAIN v THEN [err |-> "ValidationError"]
             ELSE LET items == [k \in DOMAIN v.dict |->
                                    validate_class(fa, attr.types[1].type, v.dict[k])]
                  IN  IF \E k \in DOMAIN v.dict : items[k].err # "ok"
                      THEN [err |-> "ValidationError"]
                      ELSE [err |-> "ok",
                            v |-> DictV([k \in DOMAIN v.dict |-> items[k].v])])

\* cls(<name>=<name>, ...): the instance built from the names bound in env
construct(fa, path, kwargs, env) ==
    bind(render_annotations(fa, MsgRef(path), message_at(fa, path).elements),
         LAMBDA attrs :
           IF \E i \in 1..Len(kwargs) : kwargs[i] \notin DOMAIN env
           THEN [err |-> "UnboundLocalError", value |-> NoValue]
           ELSE bind([i \in 1..Len(attrs) |->
                        validate_attribute(fa, attrs[i], env[attrs[i].name])],
                     LAMBDA checked :
                       IF \E i \in 1..Len(attrs) : checked[i].err # "ok"
                       THEN [err |-> "ValidationError", value |-> NoValue]
                       ELSE [err |-> "ok",
                             value |-> MsgV(class_path(fa, path),
                                [n \in {attrs[i].name : i \in 1..Len(attrs)} |->
                                    checked[CHOOSE i \in 1..Len(attrs) :
                                                attrs[i].name = n].v])]))

RECURSIVE run_decode(_, _, _)

\* <qualified>.decode(proto_obj)
call_decode(fa, qualified, proto_obj) ==
    LET c == py_lookup(fa, qualified)
    IN  IF c.kind = "NameError" THEN [err |-> "NameError", value |-> NoValue]
        ELSE IF c.kind # "message" THEN [err |-> "AttributeError", value |-> NoValue]
        ELSE run_decode(fa, c.path, proto_obj)

\* the value of proto_obj.<name>
pb_getattr(obj, name) ==
    CASE obj[name].c = "single" -> obj[name].v
      [] obj[name].c = "rep" -> ListV(obj[name].v)
      [] obj[name].c = "map" -> DictV(obj[name].v)

\* mutant: the chain binds the first member, present or not
decode_members_first(obj, name, members, env) ==
    (name :> pb_getattr(obj, Head(members))) @@ env

\* the chain of `if proto_obj.HasField(<member>): <name> = proto_obj.<member>`
RECURSIVE decode_members(_, _, _, _)
decode_members(obj, name, members, env) ==
    IF members = <<>> THEN env
    ELSE decode_members(obj, name, Tail(members),
            IF pb_hasfield(obj, Head(members))
            THEN (name :> pb_getattr(obj, Head(members))) @@ env
            ELSE env)

\* mutant: the wire field is read whether or not it is marked present
has_optional_unchecked(obj, name) == ~IsNone(pb_getattr(obj, name))

\* the test of the conditional expression generated for an OPTIONAL field
has_optional(obj, name) == ~IsNone(pb_getattr(obj, name)) /\ pb_hasfield(obj, name)

\* one statement of a generated decode
decode_statement(fa, st, obj, env) ==
    LET cell == obj[st.name]
    IN  CASE st.op = "comment" -> Bound(env)
          [] st.op = "read" -> Bound((st.name :> pb_getattr(obj, st.name)) @@ env)
          [] st.op = "read_if_has" ->
                Bound((st.name :> IF has_optional(obj, st.name)
                                  THEN pb_getattr(obj, st.name) ELSE NoValue) @@ env)
          [] st.op = "list" -> Bound((st.name :> ListV(cell.v)) @@ env)
          [] st.op = "decode_sub" ->
                (IF cell.c # "single" \/ cell.of.t # "msg"
                 THEN Failed("AttributeError", env)
                 ELSE bind(call_decode(fa, st.qualified, cell.v.wmsg),
                           LAMBDA r :
                             IF r.err # "ok" THEN Failed(r.err, env)
                             ELSE Bound((st.name :> r.value) @@ env)))
          [] st.op = "decode_if_has" ->
                (IF ~has_optional(obj, st.name) THEN Bound((st.name :> NoValue) @@ env)
                 ELSE IF cell.of.t # "msg" THEN Failed("AttributeError", env)
                 ELSE bind(call_decode(fa, st.qualified, cell.v.wmsg),
                           LAMBDA r :
                             IF r.err # "ok" THEN Failed(r.err, env)
                             ELSE Bound((st.name :> r.value) @@ env)))
          [] st.op = "decode_each" ->
                (IF cell.v = <<>> THEN Bound((st.name :> ListV(<<>>)) @@ env)
                 ELSE IF cell.c # "rep" \/ cell.of.t # "msg"
                 THEN Failed("AttributeError", env)
                 ELSE bind([i \in 1..Len(cell.v) |->
                                call_decode(fa, st.qualified, cell.v[i].wmsg)],
                           LAMBDA items :
                             IF \E i \in 1..Len(cell.v) : items[i].err # "ok"
                             THEN Failed(items[CHOOSE i \in 1..Len(cell.v) :
                                                    items[i].err # "ok"].err, env)
                             ELSE Bound((st.name :>
                                        ListV([i \in 1..Len(cell.v) |-> items[i].value]))
                                        @@ env)))
          [] st.op = "oneof_hasfield" -> Bound(decode_members(obj, st.name, st.members, env))
          [] st.op = "dict" -> Bound((st.name :> DictV(cell.v)) @@ env)
          [] st.op = "map_enum" ->
                (LET members == [k \in DOMAIN cell.v |-> enum_call(fa, st.enum, cell.v[k])]
                     bad == {k \in DOMAIN cell.v : members[k].err # "ok"}
                 IN  IF bad # {} THEN Failed(members[CHOOSE k \in bad : TRUE].err, env)
                     ELSE Bound((st.name :> DictV([k \in DOMAIN cell.v |-> members[k].v]))
                                @@ env))
          [] st.op = "map_decode" ->
                (IF DOMAIN cell.v = {} THEN Bound((st.name :> DictV(<<>>)) @@ env)
                 ELSE IF cell.c # "map" \/ cell.of.t # "msg"
                 THEN Failed("AttributeError", env)
                 ELSE bind([k \in DOMAIN cell.v |->
                                call_decode(fa, st.qualified, cell.v[k].wmsg)],
                           LAMBDA items :
                             IF \E k \in DOMAIN cell.v : items[k].err # "ok"
                             THEN Failed(items[CHOOSE k \in DOMAIN cell.v :
                                                    items[k].err # "ok"].err, env)
                             ELSE Bound((st.name :>
                                        DictV([k \in DOMAIN cell.v |-> items[k].value]))
                                        @@ env)))

\* the statements of a generated decode, in order, up to the first exception
RECURSIVE decode_statements(_, _, _, _)
decode_statements(fa, statements, obj, env) ==
    IF statements = <<>> THEN Bound(env)
    ELSE bind(decode_statement(fa, Head(statements), obj, env),
              LAMBDA r :
                IF r.err # "ok" THEN r
                ELSE decode_statements(fa, Tail(statements), obj, r.env))

\* <Message>.decode(proto_obj)
run_decode(fa, path, obj) ==
    bind(decode_statements(fa, render_decoder(fa, path).statements, obj, <<>>),
         LAMBDA body :
           IF body.err # "ok" THEN [err |-> body.err, value |-> NoValue, env |-> body.env]
           ELSE bind(construct(fa, path, render_decoder(fa, path).constructor, body.env),
                     LAMBDA built :
                       [err |-> built.err, value |-> built.value, env |-> body.env]))

-----------------------------------------------------------------------------
(* The wire objects a decode may be handed: every field is unset or, one   *)
(* singular field at a time, set to a value of its type; a REQUIRED field  *)
(* is always set.                                                          *)

required_names(message) ==
    {message.fields[i].name :
        i \in {j \in 1..Len(message.fields) : message.fields[j].cardinality = "REQUIRED"}}

RECURSIVE received_wires(_, _)

wire_values(fa, of) ==
    CASE of.t = "int" -> {IntV(n) : n \in IntValues}
      [] of.t = "bool" -> {IntV(0)}
      [] of.t = "str" -> {StrV(t) : t \in StrValues}
      [] of.t = "enum" -> {IntV(n) : n \in of.tags}
      [] of.t = "msg" -> {[wmsg |-> w] : w \in received_wires(fa, of.path)}

received_wires(fa, path) ==
    bind(fresh_wire(fa, path),
         LAMBDA fresh :
           bind({n \in DOMAIN fresh : fresh[n].c = "single"},
                LAMBDA singles :
                  {w \in {fresh} \cup
                          {clear_siblings(fa, [fresh EXCEPT ![n] =
                                                [@ EXCEPT !.set = TRUE, !.v = v]], n)
                              : n \in singles,
                                v \in UNION {wire_values(fa, fresh[m].of) : m \in singles}} :
                      /\ \A n \in singles : w[n].set => w[n].v \in wire_values(fa, w[n].of)
                      /\ \A n \in required_names(message_at(fa, path)) : w[n].set}))

-----------------------------------------------------------------------------
(* formatter.py: render_field, render_attribute and render, with the       *)
(* exceptions they raise.  The text of a class is kept by its parts: the   *)
(* rendered attributes in the order they are emitted, and the statements   *)
(* of its encode and decode.                                               *)

\* a render call returned `out`
Rendered(out) == [err |-> "ok", arg |-> "", out |-> out]

\* a render call raised
Raised(e, arg) == [err |-> e, arg |-> arg, out |-> NoValue]

\* mutant: an OPTIONAL field is rendered like a REQUIRED one
optional_text_bare(field_type) == field_type

\* f"{field_type} | None"
optional_text(field_type) == field_type \o " | None"

\* render_field: the text of the annotation
render_field_text(fa, field, message) ==
    CASE field.cardinality \in {"REQUIRED", "None"} ->
            Rendered(qualified_type(fa, message, field.type))
      [] field.cardinality = "OPTIONAL" ->
            Rendered(optional_text(qualified_type(fa, message, field.type)))
      [] field.cardinality = "REPEATED" ->
            Rendered("list[" \o qualified_type(fa, message, field.type) \o "]")
      [] OTHER -> Raised("TypeError", "Unexpected cardinality")

\* " | ".join(render_field(e, message) for e in elements)
RECURSIVE union_text(_, _, _)
union_text(fa, members, message) ==
    IF Len(members) = 1 THEN render_field_text(fa, members[1], message).out
    ELSE render_field_text(fa, members[1], message).out \o " | "
         \o union_text(fa, Tail(members), message)

\* mutant: the members are numbered by their position
render_members_numbered(elements) ==
    [i \in 1..Len(elements) |-> [name |-> elements[i].name, number |-> i - 1]]

\* f"{val.name} = {val.number}" for val in element.elements
render_members(elements) ==
    [i \in 1..Len(elements) |-> [name |-> elements[i].name, number |-> elements[i].number]]

\* the sort key of render_attribute: False for a nested message or enum
sort_key(e) == e.kind \notin {"MessageAdapter", "Enum"}

\* mutant: the elements are rendered in declaration order
sorted_declared(elements) == elements

\* sorted(element.elements, key=...): a stable sort on a boolean key
sorted(elements) ==
    SelectSeq(elements, LAMBDA e : ~sort_key(e)) \o SelectSeq(elements, sort_key)

\* mutant: list.sort, the elements list of the adapter is sorted in place
left_by_sort(elements) == sorted(elements)

\* the list handed to sorted() after the call: sorted builds a new list
left_by_sorted(elements) == elements

\* a MessageAdapter after render_attribute has run on it and on the messages nested in it
RECURSIVE rendered_message(_)
rendered_message(message) ==
    [message EXCEPT
        !.elements = left_by_sorted(
            [i \in 1..Len(message.elements) |->
                IF message.elements[i].kind = "MessageAdapter"
                THEN rendered_message(message.elements[i])
                ELSE message.elements[i]]),
        !.messages = [i \in 1..Len(message.messages) |-> rendered_message(message.messages[i])]]

\* a list of elements with one adapter replaced
replaced(elements, adapter, new) ==
    [i \in 1..Len(elements) |-> IF elements[i] = adapter THEN new ELSE elements[i]]

\* the tree below a message after render_attribute has run on the message at `path` below it
RECURSIVE message_rendered_at(_, _)
message_rendered_at(message, path) ==
    IF path = <<>> THEN rendered_message(message)
    ELSE bind(message_rendered_at(message.messages[Head(path)], Tail(path)),
              LAMBDA new :
                [message EXCEPT
                    !.elements = replaced(message.elements, message.messages[Head(path)], new),
                    !.messages[Head(path)] = new])

\* the FileAdapter after render_attribute has run on the message at `path`
rendered_at(fa, path) ==
    bind(message_rendered_at(fa.messages[Head(path)], Tail(path)),
         LAMBDA new :
            [fa EXCEPT
                !.file_elements = replaced(fa.file_elements, fa.messages[Head(path)], new),
                !.messages[Head(path)] = new])

\* the FileAdapter after render has run on the file
rendered_file(fa) ==
    [fa EXCEPT
        !.file_elements =
            [i \in 1..Len(fa.file_elements) |->
                IF fa.file_elements[i].kind = "MessageAdapter"
                THEN rendered_message(fa.file_elements[i])
                ELSE fa.file_elements[i]],
        !.messages = [i \in 1..Len(fa.messages) |-> rendered_message(fa.messages[i])]]

\* the first statement that stands for an exception raised while rendering, 0 if none
first_raise(statements) ==
    IF \E i \in 1..Len(statements) : statements[i].op \in {"TypeError", "AttributeError"}
    THEN CHOOSE i \in 1..Len(statements) :
            /\ statements[i].op \in {"TypeError", "AttributeError"}
            /\ \A j \in 1..(i - 1) : statements[j].op \notin {"TypeError", "AttributeError"}
    ELSE 0

\* render_encoder with its exception
render_encoder_text(fa, path) ==
    bind(render_encoder(fa, path),
         LAMBDA statements :
            IF first_raise(statements) = 0 THEN Rendered(statements)
            ELSE Raised(statements[first_raise(statements)].op, "Unexpected message type"))

\* render_decoder with its exception
render_decoder_text(fa, path) ==
    bind(render_decoder(fa, path),
         LAMBDA decoder :
            IF first_raise(decoder.statements) = 0 THEN Rendered(decoder)
            ELSE Raised(decoder.statements[first_raise(decoder.statements)].op,
                        "Unexpected message element type"))

\* the path of the adapter `element` held by the scope
adapter_path(fa, element, scope) ==
    Append(IF scope.ref = "Message" THEN scope.path ELSE <<>>,
           CHOOSE k \in 1..Len(deref(fa, scope).messages) :
                deref(fa, scope).messages[k] = element)

\* mutant: an unsupported element is left out of the text
unsupported_dropped(element) == Rendered([kind |-> "comment", text |-> ""])

\* the case of Group, Option, ExtensionRange, Reserved and Extension
unsupported(element) == Raised("NotImplementedError", element.kind)

RECURSIVE render_attribute(_, _, _)

\* "\n".join(render_attribute(e, message) for e in elements): the first exception ends it
RECURSIVE render_attributes(_, _, _)
render_attributes(fa, elements, scope) ==
    IF elements = <<>> THEN Rendered(<<>>)
    ELSE bind(render_attribute(fa, Head(elements), scope),
              LAMBDA first :
                IF first.err # "ok" THEN first
                ELSE bind(render_attributes(fa, Tail(elements), scope),
                          LAMBDA rest :
                            IF rest.err # "ok" THEN rest
                            ELSE Rendered(<<first.out>> \o rest.out)))

\* the class of a MessageAdapter: body, then encoder, then decoder
render_class(fa, element, path) ==
    bind(render_attributes(fa, sorted(element.elements), MsgRef(path)),
         LAMBDA body :
            IF body.err # "ok" THEN body
            ELSE bind(render_encoder_text(fa, path),
                      LAMBDA encoder :
                        IF encoder.err # "ok" THEN encoder
                        ELSE bind(render_decoder_text(fa, path),
                                  LAMBDA decoder :
                                    IF decoder.err # "ok" THEN decoder
                                    ELSE Rendered([kind |-> "class", base |-> "BaseModel",
                                                   name |-> element.name,
                                                   body |-> body.out,
                                                   encoder |-> encoder.out,
                                                   decoder |-> decoder.out]))))

render_attribute(fa, element, scope) ==
    CASE element.kind = "Comment" ->
            Rendered([kind |-> "comment", text |-> "# " \o element.text])
      [] element.kind = "Field" ->
            bind(render_field_text(fa, element, scope),
                 LAMBDA t :
                    IF t.err # "ok" THEN t
                    ELSE Rendered([kind |-> "attribute", name |-> element.name,
                                   annotation |-> t.out]))
      [] element.kind = "OneOf" ->
            (IF \E i \in 1..Len(element.elements) : element.elements[i].kind # "Field"
             THEN Raised("NotImplementedError", "Only implemented OneOf for Field")
             ELSE Rendered([kind |-> "attribute", name |-> element.name,
                            annotation |-> union_text(fa, element.elements, scope)]))
      [] element.kind = "MessageAdapter" ->
            render_class(fa, element, adapter_path(fa, element, scope))
      [] element.kind = "Enum" ->
            Rendered([kind |-> "class", base |-> "IntEnum", name |-> element.name,
                      members |-> render_members(element.elements)])
      [] element.kind = "MapField" ->
            Rendered([kind |-> "attribute", name |-> element.name,
                      annotation |-> "dict[" \o primitive_get(element.key_type, element.key_type)
                                     \o ", " \o qualified_type(fa, scope, element.value_type)
                                     \o "]"])
      [] element.kind \in {"Group", "Option", "ExtensionRange", "Reserved", "Extension"} ->
            unsupported(element)
      [] OTHER -> Raised("TypeError", "Unexpected message type")

\* render(file): the enums of the file, then its messages
render(fa) ==
    bind(render_attributes(fa, fa.enums, FileRef),
         LAMBDA enums :
            IF enums.err # "ok" THEN enums
            ELSE bind(render_attributes(fa, fa.messages, FileRef),
                      LAMBDA messages :
                        IF messages.err # "ok" THEN messages
                        ELSE Rendered([enums |-> enums.out, messages |-> messages.out])))

-----------------------------------------------------------------------------
(* The schema files the renderer is run on: every declaration order of a   *)
(* field, an enum, a nested message and a map in a message, every          *)
(* cardinality, and elements the renderer or the adapter does not support, *)
(* one to three messages deep.                                             *)
(*                                                                         *)
(*   import "dep.proto";                                                   *)
(*   enum Color { RED = 0; BLUE = 2; }                                     *)
(*   [top]                                                                 *)
(*   message Box {                                                         *)
(*     // box                                                              *)
(*     oneof pick { int32 a; Rank b; }                                     *)
(*     <x, Rank, Part, m in any order>  [extra]                            *)
(*   }                                                                     *)
(*   with  enum Rank { HIGH = 9; LOW = 4; MID = 6; }                       *)
(*         message Part { required int32 n; [extra]                        *)
(*                        message Bolt { string k; [extra] } }             *)

Rank == Enum("Rank", <<EnumValue("HIGH", 9), EnumValue("LOW", 4), EnumValue("MID", 6)>>)

Bolt(extra) == Message("Bolt", <<Field("k", "string", "None")>> \o extra)

Part(extra2, extra3) ==
    Message("Part", <<Field("n", "int32", "REQUIRED")>> \o extra2 \o <<Bolt(extra3)>>)

\* an element of a kind without name resolution or codec
Legacy(kind) == [kind |-> kind, name |-> "old"]

\* the kinds render_attribute lists as not implemented
LegacyKinds == {"Group", "Option", "ExtensionRange", "Reserved", "Extension"}

\* a oneof with a member that is no Field
OneOfWithComment == OneOf("alt", <<Field("u", "int32", "None"), Comment("note")>>)

\* elements that stop the adapter or the renderer
Extras ==
    {Legacy(k) : k \in LegacyKinds} \cup {OneOfWithComment}
    \cup {Legacy("Service"), Legacy("Import")}

\* the orders of four elements
Orders == {o \in [1..4 -> 1..4] : \A i, j \in 1..4 : o[i] = o[j] => i = j}

Box(order, x, extra1, extra2, extra3) ==
    Message("Box",
        <<Comment("box"),
          OneOf("pick", <<Field("a", "int32", "None"), Field("b", "Rank", "None")>>)>>
        \o [i \in 1..4 |->
                <<x, Rank, Part(extra2, extra3), MapField("m", "string", "Rank")>>[order[i]]]
        \o extra1)

RenderFile(top, box) ==
    File(<<[kind |-> "Import", name |-> "dep.proto"], TopColor>> \o top \o <<box>>)

DeclaredOrder == [i \in 1..4 |-> i]

PlainX == Field("x", "int32", "REQUIRED")

RenderFiles ==
    {RenderFile(<<>>, Box(o, Field("x", t, c), <<>>, <<>>, <<>>)) :
        o \in Orders, t \in {"int32", "Rank", "Part", "Color", "Ext"}, c \in Cardinalities}
    \cup {RenderFile(<<>>, Box(DeclaredOrder, PlainX, <<e>>, <<>>, <<>>)) : e \in Extras}
    \cup {RenderFile(<<>>, Box(DeclaredOrder, PlainX, <<>>, <<e>>, <<>>)) : e \in Extras}
    \cup {RenderFile(<<>>, Box(DeclaredOrder, PlainX, <<>>, <<>>, <<e>>)) : e \in Extras}
    \cup {RenderFile(<<>>, Box(DeclaredOrder, PlainX, <<OneOfWithComment, e>>, <<>>, <<>>)) :
            e \in {Legacy("Group"), Legacy("Option")}}
    \cup {RenderFile(<<e>>, Box(DeclaredOrder, PlainX, <<>>, <<>>, <<>>)) :
            e \in {PlainX, Legacy("Reserved"), Legacy("Service"), Legacy("Extension")}}

-----------------------------------------------------------------------------
(* performatives.py: parse_annotation.  An annotation is the sequence of   *)
(* its characters; what is returned is a string.                           *)

\* the nesting depth of the annotations parse_annotation is called on
MaxNesting == 2

\* the words of the annotation language, as characters
PT_ == <<"p", "t", ":">>

CT_ == <<"c", "t", ":">>

OPTIONAL_ == <<"o", "p", "t", "i", "o", "n", "a", "l", "[">>

LIST_ == <<"l", "i", "s", "t", "[">>

DICT_ == <<"d", "i", "c", "t", "[">>

UNION_ == <<"u", "n", "i", "o", "n", "[">>

INT_ == <<"i", "n", "t">>

FLOAT_ == <<"f", "l", "o", "a", "t">>

BOOL_ == <<"b", "o", "o", "l">>

STR_ == <<"s", "t", "r">>

BYTES_ == <<"b", "y", "t", "e", "s">>

\* str.startswith
startswith(text, prefix) ==
    Len(text) >= Len(prefix) /\ SubSeq(text, 1, Len(prefix)) = prefix

\* str.endswith
endswith(text, suffix) ==
    Len(text) >= Len(suffix)
    /\ SubSeq(text, Len(text) - Len(suffix) + 1, Len(text)) = suffix

\* str.strip
RECURSIVE strip(_)
strip(text) ==
    IF text = <<>> THEN <<>>
    ELSE IF Head(text) = " " THEN strip(Tail(text))
    ELSE IF text[Len(text)] = " " THEN strip(SubSeq(text, 1, Len(text) - 1))
    ELSE text

\* the place of the first comma, 0 when there is none
first_comma(text) ==
    IF \E i \in 1..Len(text) : text[i] = ","
    THEN CHOOSE i \in 1..Len(text) : text[i] = "," /\ \A j \in 1..(i - 1) : text[j] # ","
    ELSE 0

\* inner.split(","): the text is split at every comma
RECURSIVE split(_)
split(text) ==
    IF first_comma(text) = 0 THEN <<text>>
    ELSE <<SubSeq(text, 1, first_comma(text) - 1)>>
         \o split(SubSeq(text, first_comma(text) + 1, Len(text)))

\* inner.split(",", 1)
split_once(text) ==
    IF first_comma(text) = 0 THEN <<text>>
    ELSE <<SubSeq(text, 1, first_comma(text) - 1),
           SubSeq(text, first_comma(text) + 1, Len(text))>>

\* the string of a sequence of characters
RECURSIVE str(_)
str(text) == IF text = <<>> THEN "" ELSE Head(text) \o str(Tail(text))

\* SCALAR_MAP[core], with the KeyError of a missing key
SCALAR_MAP(core) ==
    CASE core = INT_ -> [err |-> "ok", out |-> "Int64"]
      [] core = FLOAT_ -> [err |-> "ok", out |-> "Double"]
      [] core = BOOL_ -> [err |-> "ok", out |-> "bool"]
      [] core = STR_ -> [err |-> "ok", out |-> "str"]
      [] core = BYTES_ -> [err |-> "ok", out |-> "bytes"]
      [] OTHER -> [err |-> "KeyError", out |-> str(core)]

\* the text between the opening bracket of a prefix and the closing bracket
inner_of(core, prefix) == SubSeq(core, Len(prefix) + 1, Len(core) - 1)

\* core.startswith(prefix) and core.endswith("]")
bracketed(core, prefix) == startswith(core, prefix) /\ endswith(core, <<"]">>)

RECURSIVE parse_annotation(_)

\* " | ".join(parse_annotation(p.strip()) for p in parts): the first exception ends it
RECURSIVE parse_union(_)
parse_union(parts) ==
    bind(parse_annotation(strip(Head(parts))),
         LAMBDA first :
            IF first.err # "ok" \/ Len(parts) = 1 THEN first
            ELSE bind(parse_union(Tail(parts)),
                      LAMBDA rest :
                        IF rest.err # "ok" THEN rest
                        ELSE [err |-> "ok", out |-> first.out \o " | " \o rest.out]))

\* the dict branch: key_str, value_str = (part.strip() for part in inner.split(",", 1))
parse_dict(parts) ==
    IF Len(parts) # 2 THEN [err |-> "ValueError", out |-> "not enough values to unpack"]
    ELSE bind(parse_annotation(strip(parts[1])),
              LAMBDA key :
                IF key.err # "ok" THEN key
                ELSE bind(parse_annotation(strip(parts[2])),
                          LAMBDA value :
                            IF value.err # "ok" THEN value
                            ELSE [err |-> "ok",
                                  out |-> "dict[" \o key.out \o ", " \o value.out \o "]"]))

\* the branches of parse_annotation after the "pt:" prefix is cut off
parse_core(core) ==
    CASE bracketed(core, OPTIONAL_) ->
            bind(parse_annotation(inner_of(core, OPTIONAL_)),
                 LAMBDA r : IF r.err # "ok" THEN r
                            ELSE [err |-> "ok", out |-> r.out \o " | None"])
      [] ~bracketed(core, OPTIONAL_) /\ bracketed(core, LIST_) ->
            bind(parse_annotation(inner_of(core, LIST_)),
                 LAMBDA r : IF r.err # "ok" THEN r
                            ELSE [err |-> "ok", out |-> "list[" \o r.out \o "]"])
      [] ~bracketed(core, OPTIONAL_) /\ ~bracketed(core, LIST_) /\ bracketed(core, DICT_) ->
            parse_dict(split_once(inner_of(core, DICT_)))
      [] ~bracketed(core, OPTIONAL_) /\ ~bracketed(core, LIST_) /\ ~bracketed(core, DICT_)
         /\ bracketed(core, UNION_) ->
            parse_union(split(inner_of(core, UNION_)))
      [] OTHER -> SCALAR_MAP(core)

parse_annotation(text) ==
    IF startswith(text, PT_) THEN parse_core(SubSeq(text, 4, Len(text)))
    ELSE IF startswith(text, CT_) THEN [err |-> "ok", out |-> str(SubSeq(text, 4, Len(text)))]
    ELSE [err |-> "ValueError", out |-> "Unknown annotation prefix"]

-----------------------------------------------------------------------------
(* The annotations parse_annotation is called on, by their structure.      *)

Scalar(name) == [op |-> "scalar", name |-> name]

Custom(name) == [op |-> "custom", name |-> name]

Compound(op, args) == [op |-> op, args |-> args]

\* the annotations without type arguments
Leaves == {Scalar(INT_), Scalar(FLOAT_), Scalar(STR_), Scalar(BYTES_), Custom(<<"M", "s", "g">>)}

\* the annotations built from the given arguments
Built(args, keys) ==
    {Compound("optional", <<a>>) : a \in args}
    \cup {Compound("list", <<a>>) : a \in args}
    \cup {Compound("dict", <<k, a>>) : k \in keys, a \in args}
    \cup {Compound("union", <<a, k>>) : a \in args, k \in keys}
    \cup {Compound("union", <<k, a>>) : k \in keys, a \in args}

RECURSIVE Annotations(_)
Annotations(depth) ==
    IF depth = 0 THEN Leaves
    ELSE Annotations(depth - 1)
         \cup Built(Annotations(depth - 1),
                    IF depth = 1 THEN Leaves
                    ELSE {Scalar(STR_), Compound("union", <<Scalar(STR_), Scalar(INT_)>>)})

\* the annotations of tests/test_protocol.py that nest deeper
TestAnnotations ==
    {Compound("list", <<Compound("union",
        <<Compound("dict", <<Scalar(STR_), Scalar(INT_)>>),
          Compound("list", <<Scalar(BYTES_)>>)>>)>>),
     Compound("optional", <<Compound("dict",
        <<Compound("union", <<Scalar(STR_), Scalar(INT_)>>),
          Compound("list", <<Compound("union", <<Scalar(FLOAT_), Scalar(BOOL_)>>)>>)>>)>>)}

\* the characters of an annotation
RECURSIVE text_of(_)
text_of(a) ==
    CASE a.op = "scalar" -> PT_ \o a.name
      [] a.op = "custom" -> CT_ \o a.name
      [] a.op = "optional" -> PT_ \o OPTIONAL_ \o text_of(a.args[1]) \o <<"]">>
      [] a.op = "list" -> PT_ \o LIST_ \o text_of(a.args[1]) \o <<"]">>
      [] a.op = "dict" ->
            PT_ \o DICT_ \o text_of(a.args[1]) \o <<",", " ">> \o text_of(a.args[2]) \o <<"]">>
      [] a.op = "union" ->
            PT_ \o UNION_ \o text_of(a.args[1]) \o <<",", " ">> \o text_of(a.args[2]) \o <<"]">>

-----------------------------------------------------------------------------
(* The parts of the state a run does not use.                              *)

\* no tree: the path does not exist
NoTree == [kind |-> "absent"]

\* parse_annotation is not called
IdleAnnotation ==
    /\ annotation = <<>>
    /\ annotation_out = NoValue

\* no rollback context is entered
IdleRollback ==
    /\ manager = "none"
    /\ rb_pc = "idle"
    /\ directory = NoTree
    /\ entry_tree = NoTree
    /\ backup = NoTree
    /\ temp_dirs = 0
    /\ cwd = <<>>
    /\ old_dir = <<>>
    /\ sigmask = {}
    /\ original_mask = {}
    /\ exc = "none"
    /\ block_exc = "none"
    /\ ops = 0

-----------------------------------------------------------------------------
(* utils/rollback.py on a directory tree.  A node of the tree is a regular  *)
(* file with its content, a symbolic link with its target, or a directory   *)
(* with one entry per name; an entry that does not exist is NoTree.  A      *)
(* path is the sequence of names from the directory the context is given.   *)

\* deepest path the block touches
MaxDepth == 2

\* most operations a block performs
MaxOps == 2

\* the names of directory entries
Names == {"a", "b"}

\* what a symbolic link points to: a name in its own directory, or nothing
Targets == Names \cup {"gone"}

FileNode(data) == [kind |-> "file", data |-> data]

LinkNode(target) == [kind |-> "link", target |-> target]

DirNode(entries) == [kind |-> "dir", entries |-> entries]

EmptyDir == DirNode([n \in Names |-> NoTree])

\* the paths below the directory, by length
Paths == UNION {[1..k -> Names] : k \in 1..MaxDepth}

RECURSIVE lstat(_, _)
\* what a path names, a link in the last place not followed (is_symlink,
\* readlink, unlink)
lstat(tree, path) ==
    IF path = <<>> THEN tree
    ELSE IF tree.kind # "dir" THEN NoTree
    ELSE lstat(tree.entries[Head(path)], Tail(path))

RECURSIVE stat(_, _, _)
\* what a path names with every link followed (exists, is_dir, is_file);
\* `seen` holds the links of `tree` already followed
stat(tree, path, seen) ==
    IF path = <<>> THEN tree
    ELSE IF tree.kind # "dir" THEN NoTree
    ELSE bind(tree.entries[Head(path)], LAMBDA n :
            IF n.kind = "link"
            THEN IF n.target \in Names \ (seen \cup {Head(path)})
                 THEN stat(tree, <<n.target>> \o Tail(path), seen \cup {Head(path)})
                 ELSE NoTree
            ELSE stat(n, Tail(path), {}))

\* Path.exists()
exists(tree, path) == stat(tree, path, {}).kind # "absent"

RECURSIVE put(_, _, _)
\* the tree with `node` at `path`
put(tree, path, node) ==
    IF path = <<>> THEN node
    ELSE DirNode([tree.entries EXCEPT ![Head(path)] = put(@, Tail(path), node)])

\* the path of the directory that holds `path`
dirname(path) == SubSeq(path, 1, Len(path) - 1)

\* the names a directory holds
listdir(dir) == {n \in Names : dir.entries[n].kind # "absent"}

\* os.scandir: the entries of a directory, in an order the file system picks
scandir(dir) ==
    {s \in [1..Cardinality(listdir(dir)) -> listdir(dir)] :
        \A i, j \in DOMAIN s : i # j => s[i] # s[j]}

RECURSIVE rglob(_, _)
RECURSIVE rglob_below(_, _, _)
\* Path.rglob("*") on the directory at `rel`: its entries, then what is
\* below each entry that is a directory and not a link
rglob(dir, rel) ==
    UNION {{[i \in DOMAIN s |-> rel \o <<s[i]>>] \o below : below \in rglob_below(dir, rel, s)} :
                s \in scandir(dir)}

rglob_below(dir, rel, s) ==
    IF s = <<>> THEN {<<>>}
    ELSE IF dir.entries[Head(s)].kind = "dir"
    THEN {x \o y : x \in rglob(dir.entries[Head(s)], rel \o <<Head(s)>>),
                   y \in rglob_below(dir, rel, Tail(s))}
    ELSE rglob_below(dir, rel, Tail(s))

RECURSIVE unlinked(_, _, _)
\* the first loop of _restore_from_backup on the directory at `rel`: files
\* and links are unlinked, a directory the backup has nothing for is removed,
\* a directory the backup has something for is kept and walked
unlinked(dir, rel, bk) ==
    DirNode([n \in Names |->
        bind(dir.entries[n], LAMBDA item :
            IF item.kind = "dir" /\ exists(bk, rel \o <<n>>)
            THEN unlinked(item, rel \o <<n>>, bk)
            ELSE NoTree)])

\* one pass of the second loop of _restore_from_backup: the backup item at
\* `path` is put back into the directory
restore_item(tree, bk, path) ==
    bind(lstat(bk, path), LAMBDA item : bind(lstat(tree, path), LAMBDA directory_item :
        CASE item.kind = "link" ->
                \* symlink_to
                IF directory_item.kind # "absent"
                THEN [tree |-> tree, exc |-> "FileExistsError"]
                ELSE [tree |-> put(tree, path, item), exc |-> "none"]
          [] item.kind = "dir" ->
                \* mkdir(parents=True, exist_ok=True)
                IF directory_item.kind = "dir" THEN [tree |-> tree, exc |-> "none"]
                ELSE IF directory_item.kind = "absent"
                THEN [tree |-> put(tree, path, EmptyDir), exc |-> "none"]
                ELSE [tree |-> tree, exc |-> "FileExistsError"]
          [] OTHER ->
                \* shutil.copy2: into the directory when the destination is one
                IF directory_item.kind = "dir"
                THEN IF directory_item.entries[path[Len(path)]].kind = "dir"
                     THEN [tree |-> tree, exc |-> "IsADirectoryError"]
                     ELSE [tree |-> put(tree, path \o <<path[Len(path)]>>, item),
                           exc |-> "none"]
                ELSE [tree |-> put(tree, path, item), exc |-> "none"]))

RECURSIVE copied(_, _, _)
\* the second loop of _restore_from_backup over the items rglob yields,
\* up to the first that raises
copied(tree, bk, items) ==
    IF items = <<>> THEN [tree |-> tree, exc |-> "none"]
    ELSE bind(restore_item(tree, bk, Head(items)), LAMBDA r :
            IF r.exc # "none" THEN r ELSE copied(r.tree, bk, Tail(items)))

\* rollback._restore_from_backup(directory, backup): the trees it can leave
\* and what it raises
restore_from_backup(dir, bk) ==
    {copied(unlinked(dir, <<>>, bk), bk, items) : items \in rglob(bk, <<>>)}

\* rollback.SIGNALS_TO_BLOCK
SIGNALS_TO_BLOCK == {"SIGINT", "SIGTERM"}

\* what a block can end with
BaseExceptions == {"ValueError", "KeyboardInterrupt", "SystemExit"}

\* the working directory: where the process was started, or a directory of
\* the tree
Home == <<"home">>

Within(path) == <<"directory">> \o path

\* os.chdir(dir) succeeds
is_dir(tree, dir) == dir = Home \/ stat(tree, Tail(dir), {}).kind = "dir"

\* the trees a context is entered on
Old == FileNode("old")

Sub == DirNode([n \in Names |-> IF n = "a" THEN Old ELSE NoTree])

EntryTrees ==
    {DirNode([n \in Names |-> IF n = "a" THEN x ELSE y]) :
        x \in {Old, LinkNode("b"), Sub}, y \in {NoTree, Old, Sub, LinkNode("gone")}}

-----------------------------------------------------------------------------
(* The state machine.                                                      *)

Init ==
    /\ file_ast \in Files
    /\ file_adapter = NoAdapter
    /\ pc = "parsed"
    /\ q_scope = NoneRef
    /\ q_name = ""
    /\ q_result = ""
    /\ host = NoneRef
    /\ model_in = NoValue
    /\ wire = NoValue
    /\ wire_writes = <<>>
    /\ decode_env = NoValue
    /\ model_out = NoValue
    /\ err = "ok"
    /\ err_arg = ""
    /\ render_out = NoValue
    /\ tool_exit = 0
    /\ written = <<>>
    /\ IdleAnnotation
    /\ IdleRollback

\* FileAdapter.from_file(Parser().parse(...)); a KeyError leaves no adapter
FromFile ==
    /\ pc = "parsed"
    /\ \E r \in {FileAdapter_from_file(file_ast)} :
            /\ file_adapter' = r.adapter
            /\ err' = r.err
            /\ err_arg' = r.arg
            /\ pc' = IF r.err = "ok" THEN "adapted" ELSE "failed"
    /\ UNCHANGED <<file_ast, q_scope, q_name, q_result,
                   host, model_in, wire, wire_writes, decode_env, model_out,
                   render_out, tool_exit, written>>
    /\ UNCHANGED <<annotation_vars, rollback_vars>>

\* formatter.qualified_type(adapter, type_name)
Resolve ==
    /\ pc = "adapted"
    /\ \E scope \in Scopes(file_adapter), type_name \in TypeNames :
        /\ q_scope' = scope
        /\ q_name' = type_name
        /\ q_result' = qualified_type(file_adapter, scope, type_name)
    /\ pc' = "resolved"
    /\ UNCHANGED <<file_ast, file_adapter,
                   host, model_in, wire, wire_writes, decode_env, model_out, err,
                   err_arg, render_out, tool_exit, written>>
    /\ UNCHANGED <<annotation_vars, rollback_vars>>

\* <Host>.encode(<fresh wire object>, instance)
Encode ==
    /\ pc = "adapted"
    /\ \E path \in message_paths(file_adapter, <<>>) :
       \E instance \in instances(file_adapter, path) :
       \E r \in {run_encode(file_adapter, path, fresh_wire(file_adapter, path), instance)} :
             /\ host' = MsgRef(path)
             /\ model_in' = instance
             /\ wire' = [wmsg |-> r.obj]
             /\ wire_writes' = r.writes
             /\ err' = r.err
    /\ pc' = "encoded"
    /\ UNCHANGED <<file_ast, file_adapter, q_scope, q_name, q_result, decode_env, model_out,
                   err_arg, render_out, tool_exit, written>>
    /\ UNCHANGED <<annotation_vars, rollback_vars>>

\* a wire object arrives from a peer
Receive ==
    /\ pc = "adapted"
    /\ \E path \in message_paths(file_adapter, <<>>) :
       \E w \in received_wires(file_adapter, path) :
            /\ host' = MsgRef(path)
            /\ wire' = [wmsg |-> w]
    /\ pc' = "received"
    /\ UNCHANGED <<file_ast, file_adapter, q_scope, q_name, q_result,
                   model_in, wire_writes, decode_env, model_out, err,
                   err_arg, render_out, tool_exit, written>>
    /\ UNCHANGED <<annotation_vars, rollback_vars>>

\* <Host>.decode(wire); an exception raised by encode has ended the run
Decode ==
    /\ pc \in {"encoded", "received"}
    /\ err = "ok"
    /\ \E r \in {run_decode(file_adapter, host.path, wire.wmsg)} :
           /\ model_out' = r.value
           /\ decode_env' = r.env
           /\ err' = r.err
    /\ pc' = "decoded"
    /\ UNCHANGED <<file_ast, file_adapter, q_scope, q_name, q_result,
                   host, model_in, wire, wire_writes,
                   err_arg, render_out, tool_exit, written>>
    /\ UNCHANGED <<annotation_vars, rollback_vars>>

Next == FromFile \/ Resolve \/ Encode \/ Receive \/ Decode

-----------------------------------------------------------------------------
(* The renderer as a state machine: a file is adapted, then one of the     *)
(* render functions is called on the file or on one of its messages.       *)

InitRender ==
    /\ file_ast \in Files \cup RenderFiles
    /\ file_adapter = NoAdapter
    /\ pc = "parsed"
    /\ q_scope = NoneRef
    /\ q_name = ""
    /\ q_result = ""
    /\ host = NoneRef
    /\ model_in = NoValue
    /\ wire = NoValue
    /\ wire_writes = <<>>
    /\ decode_env = NoValue
    /\ model_out = NoValue
    /\ err = "ok"
    /\ err_arg = ""
    /\ render_out = NoValue
    /\ tool_exit = 0
    /\ written = <<>>
    /\ IdleAnnotation
    /\ IdleRollback

\* the step a render call ends in: the message it was called on, what it returned and
\* the adapter tree it leaves
RenderStep(step, target, r, adapter) ==
    /\ pc' = step
    /\ host' = target
    /\ render_out' = r.out
    /\ err' = r.err
    /\ err_arg' = r.arg
    /\ file_adapter' = adapter
    /\ UNCHANGED <<file_ast, q_scope, q_name, q_result,
                   model_in, wire, wire_writes, decode_env, model_out, tool_exit, written>>
    /\ UNCHANGED <<annotation_vars, rollback_vars>>

\* formatter.render(file)
Render ==
    /\ pc = "adapted"
    /\ \E r \in {render(file_adapter)} : RenderStep("render", FileRef, r, rendered_file(file_adapter))

\* formatter.render_attribute(message, parent)
RenderAttribute ==
    /\ pc = "adapted"
    /\ \E p \in message_paths(file_adapter, <<>>) :
       \E r \in {render_attribute(file_adapter, message_at(file_adapter, p),
                                  message_at(file_adapter, p).parent)} :
            RenderStep("render_attribute", MsgRef(p), r, rendered_at(file_adapter, p))

\* formatter.render_encoder(message)
RenderEncoder ==
    /\ pc = "adapted"
    /\ \E p \in message_paths(file_adapter, <<>>) :
       \E r \in {render_encoder_text(file_adapter, p)} :
            RenderStep("render_encoder", MsgRef(p), r, file_adapter)

\* formatter.render_decoder(message)
RenderDecoder ==
    /\ pc = "adapted"
    /\ \E p \in message_paths(file_adapter, <<>>) :
       \E r \in {render_decoder_text(file_adapter, p)} :
            RenderStep("render_decoder", MsgRef(p), r, file_adapter)

NextRender == FromFile \/ Render \/ RenderAttribute \/ RenderEncoder \/ RenderDecoder

SpecRender == InitRender /\ [][NextRender]_vars

Spec == Init /\ [][Next]_vars

-----------------------------------------------------------------------------
(* What the schema declares, read off the parsed file itself.              *)

AstMessages(elements) == SelectSeq(elements, LAMBDA e : e.kind = "Message")

\* the elements of the ast.Message a path names
RECURSIVE AstElementsAt(_, _)
AstElementsAt(elements, path) ==
    IF path = <<>> THEN elements
    ELSE AstElementsAt(AstMessages(elements)[Head(path)].elements, Tail(path))

\* the message names met along a path, outermost first
RECURSIVE AstNamesAlong(_, _)
AstNamesAlong(elements, path) ==
    IF path = <<>> THEN <<>>
    ELSE <<AstMessages(elements)[Head(path)].name>>
         \o AstNamesAlong(AstMessages(elements)[Head(path)].elements, Tail(path))

RECURSIVE DotJoin(_)
DotJoin(names) ==
    IF Len(names) = 1 THEN names[1] ELSE names[1] \o "." \o DotJoin(Tail(names))

\* the enum and message names declared directly in the elements
DeclaredIn(elements) ==
    {elements[i].name : i \in {j \in 1..Len(elements) : elements[j].kind \in {"Enum", "Message"}}}

TopLevelNames == DeclaredIn(file_ast.file_elements)

\* the lengths of the prefixes of `path` whose message declares type_name
DeclaringDepths(path, type_name) ==
    {k \in 1..Len(path) :
        type_name \in DeclaredIn(AstElementsAt(file_ast.file_elements, SubSeq(path, 1, k)))}

Max(S) == CHOOSE x \in S : \A y \in S : y <= x

QueryPath == IF q_scope.ref = "Message" THEN q_scope.path ELSE <<>>

\* the name is declared by the query's scope or by a message enclosing it
DeclaredInScopeChain == DeclaringDepths(QueryPath, q_name) # {}

InnermostDeclaration ==
    DotJoin(AstNamesAlong(file_ast.file_elements,
                          SubSeq(QueryPath, 1, Max(DeclaringDepths(QueryPath, q_name)))))
    \o "." \o q_name

-----------------------------------------------------------------------------
(* The codec run of the current state.                                     *)

HostMessage == message_at(file_adapter, host.path)

\* an instance was encoded (the wire object did not arrive from a peer)
Encoded == pc \in {"encoded", "decoded"} /\ ~IsNone(model_in)

HostFields(cardinality) ==
    {HostMessage.fields[i] :
        i \in {j \in 1..Len(HostMessage.fields) :
                    HostMessage.fields[j].cardinality = cardinality}}

HostOneOfs == {HostMessage.oneofs[i] : i \in 1..Len(HostMessage.oneofs)}

HostMaps == {HostMessage.map_fields[i] : i \in 1..Len(HostMessage.map_fields)}

MemberNames(oneof) == {oneof.elements[i].name : i \in 1..Len(oneof.elements)}

\* the integer or string a wire field stores for a model value
WireScalar(v) == IF "enum" \in DOMAIN v THEN IntV(v.tag) ELSE v

(* C1 as stated: the round-trip law.  Encoding any valid instance of any   *)
(* message into a fresh wire object succeeds, and decoding that wire       *)
(* object succeeds and returns an instance equal to the one encoded.       *)
C1_RoundTrip ==
    /\ (pc = "encoded" => err = "ok")
    /\ (pc = "decoded" /\ Encoded) => (err = "ok" /\ model_out = model_in)

(* C2: optional absence.  For every OPTIONAL field, of primitive, enum or  *)
(* message type: encoding an instance whose field is None succeeds and     *)
(* leaves the wire field unset, and decoding a wire object whose field is  *)
(* not marked present succeeds and yields None for it, not the default.    *)
C2_OptionalAbsence ==
    pc \in {"encoded", "received", "decoded"} =>
        \A f \in HostFields("OPTIONAL") :
            /\ (pc = "encoded" /\ IsNone(model_in.attrs[f.name]))
                    => (err = "ok" /\ ~wire.wmsg[f.name].set)
            /\ (pc = "decoded" /\ ~wire.wmsg[f.name].set)
                    => (err = "ok" /\ IsNone(model_out.attrs[f.name]))

\* an absent enum- or message-typed optional field went through encode and decode
C2_Witness ==
    /\ pc = "decoded"
    /\ Encoded
    /\ \E f \in HostFields("OPTIONAL") :
            /\ f.type \notin DOMAIN PRIMITIVE_TYPE_MAP
            /\ IsNone(model_in.attrs[f.name])
            /\ ~wire.wmsg[f.name].set
            /\ IsNone(model_out.attrs[f.name])

\* the REPEATED fields of the host of primitive or message type
RepeatedPlainFields ==
    {f \in HostFields("REPEATED") : wire.wmsg[f.name].of.t # "enum"}

\* the model element a wire element stands for
ElementOf(cell, element) ==
    IF cell.of.t = "msg"
    THEN run_decode(file_adapter, cell.of.path, element.wmsg).value
    ELSE element

C4_OneOfEncodeExclusive ==
    (pc = "encoded" /\ err = "ok") =>
        \A o \in HostOneOfs :
            /\ Len(SelectSeq(wire_writes, LAMBDA n : n \in MemberNames(o))) = 1
            /\ Cardinality({n \in MemberNames(o) : wire.wmsg[n].set}) = 1

\* the members of a OneOf marked present on the wire
PresentMembers(o) == {n \in MemberNames(o) : wire.wmsg[n].set}

C6_MapFidelity ==
    (Encoded /\ HostMaps # {}) =>
        /\ err = "ok"
        /\ pc = "decoded" =>
            \A m \in HostMaps :
                /\ DOMAIN model_out.attrs[m.name].dict = DOMAIN model_in.attrs[m.name].dict
                /\ \A k \in DOMAIN model_in.attrs[m.name].dict :
                        model_out.attrs[m.name].dict[k] = model_in.attrs[m.name].dict[k]

-----------------------------------------------------------------------------
(* C7: scope shadowing.  A type name declared by the scope of the query or *)
(* by a message enclosing it resolves to the declaration of the innermost  *)
(* such message, A.<name>, whether or not the name is also declared by an  *)
(* outer message or at the top level of the file.                          *)
C7_ScopeShadowing ==
    (pc = "resolved" /\ DeclaredInScopeChain) => q_result = InnermostDeclaration

\* a name declared both in a nested scope and at top level, resolved to the nested one
C7_Witness ==
    /\ pc = "resolved"
    /\ DeclaredInScopeChain
    /\ q_name \in TopLevelNames
    /\ Len(QueryPath) = 2
    /\ q_result = InnermostDeclaration

(* C8 as stated: a name that no enclosing message declares and that is     *)
(* declared at the top level of the file resolves to that top-level type,  *)
(* never to an entry of the primitive table.                               *)
C8_TopLevelBeforePrimitives ==
    (pc = "resolved" /\ ~DeclaredInScopeChain /\ q_name \in TopLevelNames)
        => q_result = q_name

(* C8 amended: when no enclosing message declares the name the file is not *)
(* consulted: a key of the primitive table resolves to its table entry,    *)
(* also when a top-level type has that name, and every other name, a       *)
(* top-level type included, is returned unchanged.                         *)
C8_PrimitivesBeforeFile ==
    (pc = "resolved" /\ ~DeclaredInScopeChain) =>
        /\ q_name \in DOMAIN PRIMITIVE_TYPE_MAP => q_result = PRIMITIVE_TYPE_MAP[q_name]
        /\ q_name \notin DOMAIN PRIMITIVE_TYPE_MAP => q_result = q_name

\* a top-level type named like a primitive, resolved to the primitive
C8_Witness ==
    /\ pc = "resolved"
    /\ ~DeclaredInScopeChain
    /\ q_name \in TopLevelNames
    /\ q_name \in DOMAIN PRIMITIVE_TYPE_MAP
    /\ q_result = PRIMITIVE_TYPE_MAP[q_name]

(* C9: resolution fallthrough.  A name declared by no enclosing message,   *)
(* not declared at top level and not a key of the primitive table comes    *)
(* back unchanged, and no error is raised.                                 *)
C9_Fallthrough ==
    (/\ pc = "resolved"
     /\ ~DeclaredInScopeChain
     /\ q_name \notin TopLevelNames
     /\ q_name \notin DOMAIN PRIMITIVE_TYPE_MAP)
        => (q_result = q_name /\ err = "ok")

\* a nested type resolved from outside the message that declares it
C9_Witness ==
    /\ pc = "resolved"
    /\ q_scope.ref = "Message"
    /\ q_name = "Tone"
    /\ ~DeclaredInScopeChain
    /\ q_result = "Tone"

(* C10: qualified names.  Every message's fully_qualified_name is the      *)
(* dot-joined names of its enclosing messages, outermost first, down to    *)
(* itself, and no two message nodes of a file share one.                   *)
C10_QualifiedNamesUnique ==
    pc # "parsed" =>
        LET paths == message_paths(file_adapter, <<>>)
        IN  /\ \A p \in paths :
                message_at(file_adapter, p).fully_qualified_name
                    = DotJoin(AstNamesAlong(file_ast.file_elements, p))
            /\ \A p \in paths : \A q \in paths :
                p # q => message_at(file_adapter, p).fully_qualified_name
                            # message_at(file_adapter, q).fully_qualified_name

\* two messages with one short name under different parents
C10_Witness ==
    /\ pc = "adapted"
    /\ \E p \in message_paths(file_adapter, <<>>) :
       \E q \in message_paths(file_adapter, <<>>) :
            /\ p # q
            /\ message_at(file_adapter, p).name = message_at(file_adapter, q).name
            /\ message_at(file_adapter, p).fully_qualified_name
                    # message_at(file_adapter, q).fully_qualified_name

-----------------------------------------------------------------------------
(* The adapter tree against the parsed file.                               *)

Adapted == file_adapter.kind = "FileAdapter"

\* the adapters held in an elements list, in order
AdaptersIn(elements) == SelectSeq(elements, LAMBDA e : e.kind = "MessageAdapter")

\* the names of the elements of one kind declared directly in the elements
NamesOfKind(elements, kind) ==
    {elements[i].name : i \in {j \in 1..Len(elements) : elements[j].kind = kind}}

(* C11: back-references.  After from_file has returned, every message of   *)
(* the tree, at every depth, has file set to the root FileAdapter and      *)
(* parent set to the adapter that directly encloses it (the FileAdapter    *)
(* for a top-level message); the adapters reached through an elements list *)
(* are the ones reached through the messages list, so they carry the same  *)
(* references.                                                             *)
C11_BackReferences ==
    Adapted =>
        /\ AdaptersIn(file_adapter.file_elements) = file_adapter.messages
        /\ \A p \in message_paths(file_adapter, <<>>) :
                /\ message_at(file_adapter, p).file = FileRef
                /\ message_at(file_adapter, p).parent =
                        (IF Len(p) = 1 THEN FileRef ELSE MsgRef(SubSeq(p, 1, Len(p) - 1)))
                /\ AdaptersIn(message_at(file_adapter, p).elements)
                        = message_at(file_adapter, p).messages

\* a message nested two levels deep points to its enclosing message and to the file
C11_Witness ==
    /\ Adapted
    /\ \E p \in message_paths(file_adapter, <<>>) :
            /\ Len(p) = 3
            /\ message_at(file_adapter, p).parent = MsgRef(SubSeq(p, 1, 2))
            /\ message_at(file_adapter, p).file = FileRef
            /\ deref(file_adapter, message_at(file_adapter, p).parent).name
                    = AstNamesAlong(file_ast.file_elements, p)[2]

(* C12: enum_names and message_names.  For every message of the tree,      *)
(* enum_names is the set of names of the enums declared directly in the    *)
(* parsed message and message_names the set of names of the messages       *)
(* declared directly in it, and nothing else.                              *)
C12_DirectNames ==
    Adapted =>
        \A p \in message_paths(file_adapter, <<>>) :
            /\ enum_names(message_at(file_adapter, p))
                    = NamesOfKind(AstElementsAt(file_ast.file_elements, p), "Enum")
            /\ message_names(message_at(file_adapter, p))
                    = NamesOfKind(AstElementsAt(file_ast.file_elements, p), "Message")

\* a message whose own enum differs from the enums of its parent, child and the file
C12_Witness ==
    /\ Adapted
    /\ \E p \in message_paths(file_adapter, <<>>) :
            /\ Len(p) = 1
            /\ enum_names(message_at(file_adapter, p)) = {"Shade"}
            /\ enum_names(file_adapter) = {"Color"}
            /\ "Tone" \in enum_names(message_at(file_adapter, Append(p, Len(
                        message_at(file_adapter, p).messages))))
            /\ "Inner" \in message_names(message_at(file_adapter, p))
            /\ "Deep" \notin message_names(message_at(file_adapter, p))

-----------------------------------------------------------------------------
(* protodantic.py: create as a state machine.  `written` lists the files   *)
(* written so far, in order; tool_exit is the exit status protoc will end  *)
(* with.                                                                   *)

InitCreate ==
    /\ file_ast \in Files \cup RenderFiles
    /\ tool_exit \in {0, 1}
    /\ file_adapter = NoAdapter
    /\ pc = "start"
    /\ q_scope = NoneRef
    /\ q_name = ""
    /\ q_result = ""
    /\ host = NoneRef
    /\ model_in = NoValue
    /\ wire = NoValue
    /\ wire_writes = <<>>
    /\ decode_env = NoValue
    /\ model_out = NoValue
    /\ err = "ok"
    /\ err_arg = ""
    /\ render_out = NoValue
    /\ written = <<>>
    /\ IdleAnnotation
    /\ IdleRollback

\* mutant: the exit status of protoc is not looked at
protoc_unchecked(exit) == TRUE

\* subprocess.run(..., check=True) returns
protoc_succeeded(exit) == exit = 0

\* copy_primitives: primitives.py is written next to the model module
CopyPrimitives ==
    /\ pc = "start"
    /\ written' = Append(written, "primitives")
    /\ pc' = "copied"
    /\ UNCHANGED <<file_ast, file_adapter, q_scope, q_name, q_result, host, model_in, wire,
                   wire_writes, decode_env, model_out, err, err_arg, render_out, tool_exit>>
    /\ UNCHANGED <<annotation_vars, rollback_vars>>

\* mutant: the run goes on whatever the exit status of protoc
RunProtoc_unchecked ==
    /\ pc = "copied"
    /\ written' = Append(written, "pb2")
    /\ pc' = "parsed"
    /\ UNCHANGED <<file_ast, file_adapter, q_scope, q_name, q_result, host, model_in, wire,
                   wire_writes, decode_env, model_out, err, err_arg, render_out, tool_exit>>
    /\ UNCHANGED <<annotation_vars, rollback_vars>>

\* _run_protoc, then Parser().parse: protoc writes the pb2 module or the run ends
RunProtoc ==
    /\ pc = "copied"
    /\ IF protoc_succeeded(tool_exit)
       THEN /\ written' = Append(written, "pb2")
            /\ pc' = "parsed"
            /\ UNCHANGED <<err, err_arg>>
       ELSE /\ pc' = "failed"
            /\ err' = "CalledProcessError"
            /\ err_arg' = "protoc"
            /\ UNCHANGED written
    /\ UNCHANGED <<file_ast, file_adapter, q_scope, q_name, q_result, host, model_in, wire,
                   wire_writes, decode_env, model_out, render_out, tool_exit>>
    /\ UNCHANGED <<annotation_vars, rollback_vars>>

\* the pb2 module is read, stripped of its runtime version check and written back
RewritePb2 ==
    /\ pc = "adapted"
    /\ written' = Append(written, "pb2")
    /\ pc' = "rewritten"
    /\ UNCHANGED <<file_ast, file_adapter, q_scope, q_name, q_result, host, model_in, wire,
                   wire_writes, decode_env, model_out, err, err_arg, render_out, tool_exit>>
    /\ UNCHANGED <<annotation_vars, rollback_vars>>

\* mutant: the model module is written although the renderer raised
RenderModels_partial ==
    /\ pc = "rewritten"
    /\ \E r \in {render(file_adapter)} :
            /\ render_out' = r.out
            /\ err' = r.err
            /\ err_arg' = r.arg
            /\ written' = Append(written, "models")
            /\ pc' = IF r.err = "ok" THEN "models" ELSE "failed"
    /\ UNCHANGED <<file_ast, file_adapter, q_scope, q_name, q_result, host, model_in, wire,
                   wire_writes, decode_env, model_out, tool_exit>>
    /\ UNCHANGED <<annotation_vars, rollback_vars>>

\* the protodantic template is rendered with the file and the formatter, and written
RenderModels ==
    /\ pc = "rewritten"
    /\ \E r \in {render(file_adapter)} :
            /\ render_out' = r.out
            /\ err' = r.err
            /\ err_arg' = r.arg
            /\ IF r.err = "ok"
               THEN written' = Append(written, "models") /\ pc' = "models"
               ELSE UNCHANGED written /\ pc' = "failed"
    /\ UNCHANGED <<file_ast, file_adapter, q_scope, q_name, q_result, host, model_in, wire,
                   wire_writes, decode_env, model_out, tool_exit>>
    /\ UNCHANGED <<annotation_vars, rollback_vars>>

\* the primitive_strategies template is rendered and written
RenderStrategies ==
    /\ pc = "models"
    /\ written' = Append(written, "primitive_strategies")
    /\ pc' = "strategies"
    /\ UNCHANGED <<file_ast, file_adapter, q_scope, q_name, q_result, host, model_in, wire,
                   wire_writes, decode_env, model_out, err, err_arg, render_out, tool_exit>>
    /\ UNCHANGED <<annotation_vars, rollback_vars>>

\* the hypothesis template is rendered and written
RenderTests ==
    /\ pc = "strategies"
    /\ written' = Append(written, "tests")
    /\ pc' = "done"
    /\ UNCHANGED <<file_ast, file_adapter, q_scope, q_name, q_result, host, model_in, wire,
                   wire_writes, decode_env, model_out, err, err_arg, render_out, tool_exit>>
    /\ UNCHANGED <<annotation_vars, rollback_vars>>

NextCreate ==
    \/ CopyPrimitives
    \/ RunProtoc
    \/ FromFile
    \/ RewritePb2
    \/ RenderModels
    \/ RenderStrategies
    \/ RenderTests

SpecCreate == InitCreate /\ [][NextCreate]_vars

-----------------------------------------------------------------------------
(* parse_annotation as a state machine: an annotation is given, and parsed. *)

InitAnnotation ==
    /\ annotation \in {text_of(a) : a \in Annotations(MaxNesting) \cup TestAnnotations}
    /\ annotation_out = NoValue
    /\ file_ast = File(<<>>)
    /\ file_adapter = NoAdapter
    /\ pc = "annotation"
    /\ q_scope = NoneRef
    /\ q_name = ""
    /\ q_result = ""
    /\ host = NoneRef
    /\ model_in = NoValue
    /\ wire = NoValue
    /\ wire_writes = <<>>
    /\ decode_env = NoValue
    /\ model_out = NoValue
    /\ err = "ok"
    /\ err_arg = ""
    /\ render_out = NoValue
    /\ tool_exit = 0
    /\ written = <<>>
    /\ IdleRollback

\* performatives.parse_annotation(annotation)
ParseAnnotation ==
    /\ pc = "annotation"
    /\ \E r \in {parse_annotation(annotation)} :
            /\ annotation_out' = r.out
            /\ err' = r.err
    /\ pc' = "parsed_annotation"
    /\ UNCHANGED <<annotation, file_ast, file_adapter, q_scope, q_name, q_result, host,
                   model_in, wire, wire_writes, decode_env, model_out, err_arg, render_out,
                   tool_exit, written, rollback_vars>>

NextAnnotation == ParseAnnotation

SpecAnnotation == InitAnnotation /\ [][NextAnnotation]_vars

-----------------------------------------------------------------------------
(* rollback.on_exit and rollback.on_exception as a state machine: the       *)
(* context is entered on a directory, the block changes the tree and the    *)
(* working directory and ends normally or by an exception, and the context  *)
(* exits.                                                                   *)

InitRollback ==
    /\ manager \in {"on_exit", "on_exception"}
    /\ rb_pc = "idle"
    /\ directory \in EntryTrees
    /\ entry_tree = NoTree
    /\ backup = NoTree
    /\ temp_dirs = 0
    /\ cwd = Home
    /\ old_dir = <<>>
    /\ sigmask \in {{}, {"SIGINT"}}
    /\ original_mask = {}
    /\ exc = "none"
    /\ block_exc = "none"
    /\ ops = 0
    /\ file_ast = File(<<>>)
    /\ file_adapter = NoAdapter
    /\ pc = "rollback"
    /\ q_scope = NoneRef
    /\ q_name = ""
    /\ q_result = ""
    /\ host = NoneRef
    /\ model_in = NoValue
    /\ wire = NoValue
    /\ wire_writes = <<>>
    /\ decode_env = NoValue
    /\ model_out = NoValue
    /\ err = "ok"
    /\ err_arg = ""
    /\ render_out = NoValue
    /\ tool_exit = 0
    /\ written = <<>>
    /\ IdleAnnotation

\* on_exit / on_exception up to the yield: mkdtemp, copytree(symlinks=True),
\* chdir(Path.cwd()) entered
Enter ==
    /\ rb_pc = "idle"
    /\ temp_dirs' = temp_dirs + 1
    /\ backup' = directory
    /\ entry_tree' = directory
    /\ old_dir' = cwd
    /\ rb_pc' = "block"
    /\ UNCHANGED <<manager, directory, cwd, sigmask, original_mask, exc, block_exc, ops,
                   codec_vars, annotation_vars>>

\* one operation of the block on the tree
BlockStep(tree) ==
    /\ rb_pc = "block"
    /\ ops < MaxOps
    /\ directory' = tree
    /\ ops' = ops + 1
    /\ UNCHANGED <<manager, rb_pc, entry_tree, backup, temp_dirs, cwd, old_dir, sigmask,
                   original_mask, exc, block_exc, codec_vars, annotation_vars>>

\* the block writes a file: a new one, or new content of an old one
WriteFile ==
    \E path \in Paths :
        /\ lstat(directory, dirname(path)).kind = "dir"
        /\ lstat(directory, path) \in {NoTree, Old}
        /\ BlockStep(put(directory, path, FileNode("new")))

\* the block makes a directory
MakeDir ==
    \E path \in Paths :
        /\ lstat(directory, dirname(path)).kind = "dir"
        /\ lstat(directory, path) = NoTree
        /\ BlockStep(put(directory, path, EmptyDir))

\* the block makes a symbolic link
MakeLink ==
    \E path \in Paths, target \in Targets :
        /\ lstat(directory, dirname(path)).kind = "dir"
        /\ lstat(directory, path) = NoTree
        /\ BlockStep(put(directory, path, LinkNode(target)))

\* the block deletes a file or a link (unlink) or a directory (rmtree)
Remove ==
    \E path \in Paths :
        /\ lstat(directory, path) # NoTree
        /\ BlockStep(put(directory, path, NoTree))

\* the block changes the working directory
Chdir ==
    /\ rb_pc = "block"
    /\ ops < MaxOps
    /\ \E dir \in {Home} \cup {Within(path) : path \in {<<>>} \cup Paths} :
            /\ dir # cwd
            /\ is_dir(directory, dir)
            /\ cwd' = dir
    /\ ops' = ops + 1
    /\ UNCHANGED <<manager, rb_pc, directory, entry_tree, backup, temp_dirs, old_dir,
                   sigmask, original_mask, exc, block_exc, codec_vars, annotation_vars>>

\* the block ends: on_exit goes to its finally; on_exception goes to its
\* except clause when the block raised and to its finally when it did not
BlockEnd ==
    /\ rb_pc = "block"
    /\ \E e \in {"none"} \cup BaseExceptions :
            /\ block_exc' = e
            /\ exc' = e
            /\ rb_pc' = IF manager = "on_exception" /\ e = "none" THEN "rmtree" ELSE "mask"
    /\ UNCHANGED <<manager, directory, entry_tree, backup, temp_dirs, cwd, old_dir, sigmask,
                   original_mask, ops, codec_vars, annotation_vars>>

\* signals.mask entered: pthread_sigmask(SIG_BLOCK, SIGNALS_TO_BLOCK)
Mask ==
    /\ rb_pc = "mask"
    /\ original_mask' = sigmask
    /\ sigmask' = sigmask \cup SIGNALS_TO_BLOCK
    /\ rb_pc' = "restore"
    /\ UNCHANGED <<manager, directory, entry_tree, backup, temp_dirs, cwd, old_dir, exc,
                   block_exc, ops, codec_vars, annotation_vars>>

\* _restore_from_backup(directory, backup) inside the mask; what it raises
\* takes the place of what the block raised
Restore ==
    /\ rb_pc = "restore"
    /\ \E r \in restore_from_backup(directory, backup) :
            /\ directory' = r.tree
            /\ exc' = IF r.exc # "none" THEN r.exc ELSE exc
    /\ rb_pc' = "unmask"
    /\ UNCHANGED <<manager, entry_tree, backup, temp_dirs, cwd, old_dir, sigmask,
                   original_mask, block_exc, ops, codec_vars, annotation_vars>>

\* signals.mask left: pthread_sigmask(SIG_SETMASK, original_mask); on_exit
\* goes on to rmtree unless the restore raised, on_exception re-raises and
\* reaches its finally
Unmask ==
    /\ rb_pc = "unmask"
    /\ sigmask' = original_mask
    /\ rb_pc' = IF manager = "on_exit" /\ exc \notin {"none"} \cup {block_exc}
                THEN "chdir" ELSE "rmtree"
    /\ UNCHANGED <<manager, directory, entry_tree, backup, temp_dirs, cwd, old_dir,
                   original_mask, exc, block_exc, ops, codec_vars, annotation_vars>>

\* shutil.rmtree(backup): the copy goes, the directory mkdtemp made stays
RemoveBackup ==
    /\ rb_pc = "rmtree"
    /\ backup' = NoTree
    /\ rb_pc' = "chdir"
    /\ UNCHANGED <<manager, directory, entry_tree, temp_dirs, cwd, old_dir, sigmask,
                   original_mask, exc, block_exc, ops, codec_vars, annotation_vars>>

\* the finally of rollback.chdir: os.chdir(old_dir)
ChdirBack ==
    /\ rb_pc = "chdir"
    /\ IF is_dir(directory, old_dir)
       THEN cwd' = old_dir /\ exc' = exc
       ELSE cwd' = cwd /\ exc' = "FileNotFoundError"
    /\ rb_pc' = "exited"
    /\ UNCHANGED <<manager, directory, entry_tree, backup, temp_dirs, old_dir, sigmask,
                   original_mask, block_exc, ops, codec_vars, annotation_vars>>

NextRollback ==
    \/ Enter
    \/ WriteFile
    \/ MakeDir
    \/ MakeLink
    \/ Remove
    \/ Chdir
    \/ BlockEnd
    \/ Mask
    \/ Restore
    \/ Unmask
    \/ RemoveBackup
    \/ ChdirBack

SpecRollback == InitRollback /\ [][NextRollback]_vars

-----------------------------------------------------------------------------
(* Claims about the renderer, checked under SpecRender.                    *)

\* the elements the schema declares in the message a render call was made on
HostDeclared == AstElementsAt(file_ast.file_elements, host.path)

\* the names of the declared elements of the given kinds, in declaration order
DeclaredNames(elements, kinds) ==
    [i \in 1..Len(SelectSeq(elements, LAMBDA e : e.kind \in kinds)) |->
        SelectSeq(elements, LAMBDA e : e.kind \in kinds)[i].name]

\* the names of the rendered items of one kind, in the order of the text
RenderedNames(body, kind) ==
    [i \in 1..Len(SelectSeq(body, LAMBDA item : item.kind = kind)) |->
        SelectSeq(body, LAMBDA item : item.kind = kind)[i].name]

\* in the body of a class and of every class below it, declared with the given
\* elements, the definitions come first and nothing declared is missing
RECURSIVE DefinitionsFirst(_, _)
DefinitionsFirst(class, declared) ==
    /\ RenderedNames(class.body, "class") = DeclaredNames(declared, {"Message", "Enum"})
    /\ RenderedNames(class.body, "attribute")
            = DeclaredNames(declared, {"Field", "OneOf", "MapField"})
    /\ \A i, j \in 1..Len(class.body) :
            class.body[i].kind = "class" /\ class.body[j].kind = "attribute" => i < j
    /\ \A i \in 1..Len(class.body) :
            class.body[i].kind = "class" /\ class.body[i].base = "BaseModel" =>
                DefinitionsFirst(class.body[i],
                    (CHOOSE e \in {declared[k] : k \in 1..Len(declared)} :
                        e.kind = "Message" /\ e.name = class.body[i].name).elements)

\* render_attribute returned the class of the host message
RenderedClass == pc = "render_attribute" /\ err = "ok"

(* C13: renderer ordering.  In the attribute list render_attribute returns *)
(* for a message, every nested message or enum definition stands before    *)
(* every Field, OneOf and MapField attribute of that message, whatever the *)
(* order in which the schema declares them; the definitions keep their     *)
(* declaration order among themselves and so do the attributes.            *)
C13_DefinitionsFirst ==
    RenderedClass => DefinitionsFirst(render_out, HostDeclared)

\* a message was rendered in which a field and a map are declared before a
\* nested message and a nested enum
C13_Witness ==
    /\ RenderedClass
    /\ render_out.name = "Box"
    /\ \E i, j, k, l \in 1..Len(HostDeclared) :
            /\ i < j /\ HostDeclared[i].kind = "Field" /\ HostDeclared[j].kind = "Message"
            /\ k < l /\ HostDeclared[k].kind = "MapField" /\ HostDeclared[l].kind = "Enum"
    /\ Len(render_out.body) = 6

\* the type a name stands for when it is used in the message at `path`
ResolvedFrom(path, type_name) ==
    IF DeclaringDepths(path, type_name) # {}
    THEN DotJoin(AstNamesAlong(file_ast.file_elements,
                               SubSeq(path, 1, Max(DeclaringDepths(path, type_name)))))
         \o "." \o type_name
    ELSE IF type_name \in DOMAIN PRIMITIVE_TYPE_MAP THEN PRIMITIVE_TYPE_MAP[type_name]
    ELSE type_name

\* the fields the schema declares in the host message
HostDeclaredFields ==
    {HostDeclared[i] : i \in {j \in 1..Len(HostDeclared) : HostDeclared[j].kind = "Field"}}

\* the annotation rendered for the attribute of the given name
AnnotationOf(class, name) ==
    (CHOOSE item \in {class.body[i] : i \in 1..Len(class.body)} :
        item.kind = "attribute" /\ item.name = name).annotation

(* C14: cardinality-correct field rendering.  The annotation render_field  *)
(* returns for a field is T for a REQUIRED field or a field without        *)
(* cardinality, 'T | None' for an OPTIONAL one and 'list[T]' for a         *)
(* REPEATED one, where T is the field's type name resolved from the        *)
(* message that declares the field.                                        *)
C14_FieldCardinality ==
    RenderedClass =>
        \A f \in HostDeclaredFields :
            AnnotationOf(render_out, f.name) =
                CASE f.cardinality \in {"REQUIRED", "None"} -> ResolvedFrom(host.path, f.type)
                  [] f.cardinality = "OPTIONAL" ->
                        ResolvedFrom(host.path, f.type) \o " | None"
                  [] f.cardinality = "REPEATED" ->
                        "list[" \o ResolvedFrom(host.path, f.type) \o "]"

\* an OPTIONAL field of a type nested in its message was rendered
C14_Witness ==
    /\ RenderedClass
    /\ \E f \in HostDeclaredFields :
            /\ f.cardinality = "OPTIONAL"
            /\ f.type = "Rank"
            /\ AnnotationOf(render_out, f.name) = "Box.Rank | None"

\* the enums the schema declares in the elements, in declaration order
DeclaredEnums(elements) == SelectSeq(elements, LAMBDA e : e.kind = "Enum")

\* the enum classes of a rendered text, in the order of the text
RenderedEnums(items) ==
    SelectSeq(items, LAMBDA item : item.kind = "class" /\ item.base = "IntEnum")

\* the rendered enum classes carry the declared names and tags, in declaration order
TagsPreserved(items, declared) ==
    /\ Len(RenderedEnums(items)) = Len(DeclaredEnums(declared))
    /\ \A i \in 1..Len(DeclaredEnums(declared)) :
            /\ RenderedEnums(items)[i].name = DeclaredEnums(declared)[i].name
            /\ Len(RenderedEnums(items)[i].members) = Len(DeclaredEnums(declared)[i].elements)
            /\ \A k \in 1..Len(DeclaredEnums(declared)[i].elements) :
                    /\ RenderedEnums(items)[i].members[k].name
                            = DeclaredEnums(declared)[i].elements[k].name
                    /\ RenderedEnums(items)[i].members[k].number
                            = DeclaredEnums(declared)[i].elements[k].number

RenderedDecoder == pc = "render_decoder" /\ err = "ok"

(* C16: decoder constructor arguments.  The constructor call render_decoder *)
(* emits names every Field, OneOf and MapField element of the message once, *)
(* in the order of the message's elements, and names no nested message, no  *)
(* nested enum and no comment.                                              *)
C16_ConstructorArguments ==
    RenderedDecoder =>
        /\ render_out.constructor = DeclaredNames(HostDeclared, {"Field", "OneOf", "MapField"})
        /\ \A i, j \in 1..Len(render_out.constructor) :
                render_out.constructor[i] = render_out.constructor[j] => i = j
        /\ \A i \in 1..Len(HostDeclared) :
                HostDeclared[i].kind \in {"Message", "Enum"} =>
                    \A k \in 1..Len(render_out.constructor) :
                        render_out.constructor[k] # HostDeclared[i].name

\* the decoder of a message with a comment, a oneof, a field, a map, a nested
\* enum and a nested message, the map declared before the field
C16_Witness ==
    /\ RenderedDecoder
    /\ {HostDeclared[i].kind : i \in 1..Len(HostDeclared)}
            = {"Comment", "OneOf", "Field", "MapField", "Enum", "Message"}
    /\ render_out.constructor = <<"pick", "m", "x">>

-----------------------------------------------------------------------------
(* Elements the adapter has no list for.                                   *)

\* the kinds of the elements, at any depth below `elements`, that are not of a kind
\* allowed where they stand: `allowed` at this level, the message element kinds below
RECURSIVE UnrecognizedKinds(_, _)
UnrecognizedKinds(elements, allowed) ==
    {elements[i].kind : i \in {j \in 1..Len(elements) : elements[j].kind \notin allowed}}
    \cup UNION {UnrecognizedKinds(elements[i].elements, MessageElementTypes) :
                    i \in {j \in 1..Len(elements) : elements[j].kind = "Message"}}

FileUnrecognized == UnrecognizedKinds(file_ast.file_elements, FileElementTypes)

(* C17 as stated: an element of a kind the adapter does not recognise makes *)
(* from_file fail with a SchemaError that identifies the node, and no       *)
(* adapter tree is returned.                                                *)
C17_SchemaError ==
    (pc # "parsed" /\ FileUnrecognized # {}) =>
        (pc = "failed" /\ err = "SchemaError" /\ file_adapter = NoAdapter)

(* C17 amended: an element of a kind the adapter has no list for, in the   *)
(* file or in a message at any depth, makes from_file raise a KeyError     *)
(* whose argument is the snake-case name of the element's kind; no adapter *)
(* tree is returned.  A file without such an element is adapted.           *)
C17_KeyError ==
    pc # "parsed" =>
        IF FileUnrecognized # {}
        THEN /\ pc = "failed"
             /\ err = "KeyError"
             /\ err_arg \in {camel_to_snake(k) : k \in FileUnrecognized}
             /\ file_adapter = NoAdapter
        ELSE pc # "failed" /\ Adapted

\* a service declared in a message two levels below a top-level message stopped from_file
C17_Witness ==
    /\ pc = "failed"
    /\ err = "KeyError"
    /\ err_arg = "service"
    /\ file_adapter = NoAdapter
    /\ \E i \in 1..Len(AstElementsAt(file_ast.file_elements, <<1, 1, 1>>)) :
            AstElementsAt(file_ast.file_elements, <<1, 1, 1>>)[i].kind = "Service"

-----------------------------------------------------------------------------
(* Elements the renderer does not support.                                 *)

\* the element is a legacy construct, or a oneof with a member that is no Field
IsUnsupported(e) ==
    \/ e.kind \in {"Group", "Extension", "Reserved", "ExtensionRange"}
    \/ /\ e.kind = "OneOf"
       /\ \E i \in 1..Len(e.elements) : e.elements[i].kind # "Field"

\* such an element stands in the elements or in a message below them
RECURSIVE ContainsUnsupported(_)
ContainsUnsupported(elements) ==
    \E i \in 1..Len(elements) :
        \/ IsUnsupported(elements[i])
        \/ elements[i].kind = "Message" /\ ContainsUnsupported(elements[i].elements)

(* C18: rendering a message that holds a Group, Extension, Reserved or     *)
(* ExtensionRange element, or a OneOf with a member that is no Field, in   *)
(* itself or in a message nested in it at any depth, raises                *)
(* NotImplementedError; no text is returned, for the message or for the    *)
(* file, with the element left out.                                        *)
C18_UnsupportedFails ==
    /\ (pc = "render_attribute" /\ ContainsUnsupported(HostDeclared)) =>
            (err = "NotImplementedError" /\ render_out = NoValue)
    /\ (pc = "render" /\ ContainsUnsupported(AstMessages(file_ast.file_elements))) =>
            (err = "NotImplementedError" /\ render_out = NoValue)

\* the top-level message was rendered with a legacy element two messages below it
C18_Witness ==
    /\ pc = "render_attribute"
    /\ host.path = <<1>>
    /\ ~(\E i \in 1..Len(HostDeclared) : IsUnsupported(HostDeclared[i]))
    /\ \E i \in 1..Len(AstElementsAt(file_ast.file_elements, <<1, 1, 1>>)) :
            AstElementsAt(file_ast.file_elements, <<1, 1, 1>>)[i].kind = "Group"
    /\ err = "NotImplementedError"
    /\ err_arg = "Group"

-----------------------------------------------------------------------------
(* Elements the codec renderers have no case for.                          *)

\* the kinds render_encoder and render_decoder have a case for or filter out
CodecKinds == {"Comment", "Field", "OneOf", "MapField", "Message", "Enum"}

\* the places of the host message's elements that are of no such kind
Unexpected == {i \in 1..Len(HostDeclared) : HostDeclared[i].kind \notin CodecKinds}

\* a oneof before place i has a member without the attributes the renderers read
OneOfFailsBefore(i) ==
    \E j \in 1..(i - 1) :
        /\ HostDeclared[j].kind = "OneOf"
        /\ \E k \in 1..Len(HostDeclared[j].elements) :
                (IF pc = "render_encoder" THEN {"type", "name"} ELSE {"name"})
                    \ DOMAIN HostDeclared[j].elements[k] # {}

-----------------------------------------------------------------------------
(* Claims about create, checked under SpecCreate.                          *)

\* the files of a complete run, in the order create writes them
CreateOrder == <<"primitives", "pb2", "pb2", "models", "primitive_strategies", "tests">>

\* the model text has been asked for: rendered, or the renderer raised
RenderStarted ==
    \/ pc \in {"models", "strategies", "done"}
    \/ pc = "failed" /\ err \in {"NotImplementedError", "TypeError", "AttributeError"}

(* C20 as stated: the output files are written in the order model module,  *)
(* then primitive-support module (the module of the bounded numeric types, *)
(* primitives.py), then test module; so the primitive-support module is    *)
(* never on disk without the model module written before it.               *)
C20_ModelsBeforePrimitives ==
    \A i \in 1..Len(written) :
        written[i] = "primitives" => \E j \in 1..(i - 1) : written[j] = "models"

(* C20 amended: create writes primitives.py first, before protoc runs;     *)
(* protoc then writes the pb2 module and must exit with status 0 before    *)
(* anything else happens; the pb2 module is rewritten; then the model      *)
(* module, primitive_strategies.py and the test module are written, in     *)
(* this order.  The model text is rendered only after protoc has succeeded *)
(* and the file has been adapted, and a step that fails ends the run with  *)
(* the files of the earlier steps only.                                    *)
C20_StepOrder ==
    /\ written = SubSeq(CreateOrder, 1, Len(written))
    /\ RenderStarted => (tool_exit = 0 /\ Adapted /\ Len(written) >= 3)
    /\ tool_exit # 0 => Len(written) <= 1
    /\ (pc = "failed" /\ err = "CalledProcessError") => written = <<"primitives">>
    /\ (pc = "failed" /\ err = "KeyError") => written = <<"primitives", "pb2">>
    /\ (pc = "failed" /\ RenderStarted) => written = <<"primitives", "pb2", "pb2">>
    /\ pc = "done" => (written = CreateOrder /\ err = "ok")

\* a run of create that wrote every file
C20_Witness ==
    /\ pc = "done"
    /\ tool_exit = 0
    /\ written = CreateOrder
    /\ render_out # NoValue

\* the files written so far
WrittenFiles == {written[i] : i \in 1..Len(written)}

(* C21: external-tool failure is fatal.  When protoc exits with a status   *)
(* other than 0, create ends with the CalledProcessError of the protoc     *)
(* step: the schema is never adapted, no model text is rendered, and       *)
(* neither the model module nor the test module is written.                *)
C21_ProtocFailureFatal ==
    tool_exit # 0 =>
        /\ file_adapter = NoAdapter
        /\ render_out = NoValue
        /\ WrittenFiles \cap {"pb2", "models", "primitive_strategies", "tests"} = {}
        /\ pc \in {"start", "copied", "failed"}
        /\ pc = "failed" => err = "CalledProcessError"
        /\ pc # "failed" => err = "ok"

\* protoc has failed and create has ended
C21_Witness ==
    /\ tool_exit # 0
    /\ pc = "failed"
    /\ err = "CalledProcessError"
    /\ written = <<"primitives">>

\* the exceptions of the adapter, the renderer and the codec renderers
SchemaErrors == {"KeyError", "NotImplementedError", "TypeError", "AttributeError"}

(* C22: schema errors abort the whole compilation.  When from_file or the  *)
(* rendering of the model text raises while create runs, create ends with  *)
(* that exception and writes nothing more: the model module,               *)
(* primitive_strategies.py and the test module are not written, and what   *)
(* is on disk is what the steps before the failing one wrote.              *)
C22_SchemaErrorAborts ==
    err \in SchemaErrors =>
        /\ pc = "failed"
        /\ WrittenFiles \cap {"models", "primitive_strategies", "tests"} = {}
        /\ written = IF err = "KeyError" THEN <<"primitives", "pb2">>
                     ELSE <<"primitives", "pb2", "pb2">>

\* the renderer raised on an element of a nested message and create ended
C22_Witness ==
    /\ pc = "failed"
    /\ err = "NotImplementedError"
    /\ Adapted
    /\ ContainsUnsupported(AstMessages(file_ast.file_elements))
    /\ "models" \notin WrittenFiles

-----------------------------------------------------------------------------
(* Claims about parse_annotation, checked under SpecAnnotation.            *)

\* the translation of an annotation by its structure: every argument is translated as a whole
RECURSIVE Translation(_)
Translation(a) ==
    CASE a.op = "scalar" ->
            (CASE a.name = INT_ -> "conint(ge=Int32.min(), le=Int32.max())"
               [] a.name = FLOAT_ -> "confloat(ge=Double.min(), le=Double.max())"
               [] OTHER -> str(a.name))
      [] a.op = "custom" -> str(a.name)
      [] a.op = "optional" -> Translation(a.args[1]) \o " | None"
      [] a.op = "list" -> "tuple[" \o Translation(a.args[1]) \o "]"
      [] a.op = "dict" ->
            "dict[" \o Translation(a.args[1]) \o ", " \o Translation(a.args[2]) \o "]"
      [] a.op = "union" -> Translation(a.args[1]) \o " | " \o Translation(a.args[2])

\* the annotation parse_annotation was called on has the structure a
ParsedAs(a) == pc = "parsed_annotation" /\ annotation = text_of(a)

(* C23: parse_annotation translates an annotation compositionally: pt:int  *)
(* and pt:float become the Int32-bounded conint and the Double-bounded     *)
(* confloat, pt:list[X] becomes tuple[<X>], pt:optional[X] becomes         *)
(* <X> | None, pt:dict[K, V] becomes dict[<K>, <V>] and pt:union[A, B]     *)
(* becomes <A> | <B>, the arguments of dict and union being split at the   *)
(* commas outside brackets only.                                           *)
C23_Compositional ==
    \A a \in Annotations(MaxNesting) \cup TestAnnotations :
        ParsedAs(a) => (err = "ok" /\ annotation_out = Translation(a))

-----------------------------------------------------------------------------
(* Claims about the rendered codec statements, checked under SpecRender.   *)

\* the type name, used in the message at `path`, stands for an enum: the innermost
\* enclosing message that declares the name declares an enum, or no enclosing message
\* declares it and the file declares an enum of that name
ResolvesToEnum(path, type_name) ==
    IF DeclaringDepths(path, type_name) # {}
    THEN type_name \in NamesOfKind(
            AstElementsAt(file_ast.file_elements,
                          SubSeq(path, 1, Max(DeclaringDepths(path, type_name)))), "Enum")
    ELSE /\ type_name \in NamesOfKind(file_ast.file_elements, "Enum")
         /\ type_name \notin DOMAIN PRIMITIVE_TYPE_MAP

\* the statement rendered for the element of the given name
StatementOf(statements, name) ==
    CHOOSE st \in {statements[i] : i \in 1..Len(statements)} :
        "name" \in DOMAIN st /\ st.name = name

\* the statements that move a value between model and wire without a call
DirectEncode == {"assign", "append_each", "assign_if_not_none"}

DirectDecode == {"read", "list", "read_if_has"}

(* C24: enum-typed fields are coded by direct assignment at every scope.   *)
(* For a field whose type name stands for an enum declared in the field's  *)
(* own message, in a message enclosing it or at the top level of the file, *)
(* the rendered encode assigns the model value to the wire field and the   *)
(* rendered decode reads the wire field; neither calls encode or decode on *)
(* the enum.                                                               *)
C24_EnumFieldsAssigned ==
    /\ (pc = "render_encoder" /\ err = "ok") =>
            \A f \in HostDeclaredFields :
                ResolvesToEnum(host.path, f.type) =>
                    StatementOf(render_out, f.name).op \in DirectEncode
    /\ (pc = "render_decoder" /\ err = "ok") =>
            \A f \in HostDeclaredFields :
                ResolvesToEnum(host.path, f.type) =>
                    StatementOf(render_out.statements, f.name).op \in DirectDecode

\* the enum-valued maps of the host message whose value type is declared as an enum
\* both by the host message and at the top level of the file
ShadowedEnumMaps ==
    {HostDeclared[i] : i \in {j \in 1..Len(HostDeclared) :
        /\ HostDeclared[j].kind = "MapField"
        /\ HostDeclared[j].value_type \in NamesOfKind(HostDeclared, "Enum")
        /\ HostDeclared[j].value_type \in NamesOfKind(file_ast.file_elements, "Enum")}}

(* C25: codec and resolver agree on shadowed enums.  For an enum-valued    *)
(* map whose value type is declared as an enum both by the message that    *)
(* holds the map and at the top level of the file, the rendered encode and *)
(* decode convert the values through the nested enum, the definition       *)
(* qualified_type resolves the name to.                                    *)
C25_ShadowedEnumAgreement ==
    /\ (pc = "render_encoder" /\ err = "ok") =>
            \A m \in ShadowedEnumMaps :
                /\ StatementOf(render_out, m.name).op = "map_assign_enum"
                /\ StatementOf(render_out, m.name).enum = ResolvedFrom(host.path, m.value_type)
    /\ (pc = "render_decoder" /\ err = "ok") =>
            \A m \in ShadowedEnumMaps :
                /\ StatementOf(render_out.statements, m.name).op = "map_enum"
                /\ StatementOf(render_out.statements, m.name).enum
                        = ResolvedFrom(host.path, m.value_type)

-----------------------------------------------------------------------------
(* Claims about the generated decode, checked under Spec.                  *)

\* the names the constructor call of the host's decode is given
ConstructorNames ==
    {render_decoder(file_adapter, host.path).constructor[i] :
        i \in 1..Len(render_decoder(file_adapter, host.path).constructor)}

(* C26: decode is total over valid wire objects.  Whenever the generated   *)
(* decode reaches its constructor call, every name it passes has been      *)
(* assigned, also for a wire object in which no member of a oneof is       *)
(* present: the call never fails on an unassigned local name.              *)
C26_DecodeTotal ==
    pc = "decoded" =>
        /\ err # "UnboundLocalError"
        /\ err = "ok" => ConstructorNames \subseteq DOMAIN decode_env

\* the members of a oneof whose type name stands for a message
MessageMembers(o) ==
    {o.elements[i].name : i \in {j \in 1..Len(o.elements) :
        /\ o.elements[j].type \notin DOMAIN PRIMITIVE_TYPE_MAP
        /\ ~ResolvesToEnum(host.path, o.elements[j].type)
        /\ \/ DeclaringDepths(host.path, o.elements[j].type) # {}
           \/ o.elements[j].type \in TopLevelNames}}

(* C27: oneof members of message type compose recursively.  When the       *)
(* union attribute of a oneof holds an instance of a message, encode       *)
(* completes and marks the member of that message type present on the      *)
(* wire; when such a member is present on the wire, decode completes and   *)
(* the union attribute of the instance it returns holds an instance of the *)
(* member's message class, built by that class's decode.                   *)
C27_OneOfMessageMembers ==
    /\ (pc = "encoded" /\ ~IsNone(model_in)) =>
            \A o \in HostOneOfs :
                "msg" \in DOMAIN model_in.attrs[o.name] =>
                    /\ err = "ok"
                    /\ \E n \in MessageMembers(o) : wire.wmsg[n].set
    /\ pc = "decoded" =>
            \A o \in HostOneOfs :
                (\E n \in MessageMembers(o) : wire.wmsg[n].set) =>
                    /\ err = "ok"
                    /\ "msg" \in DOMAIN model_out.attrs[o.name]

-----------------------------------------------------------------------------
(* The adapter tree after rendering, checked under SpecRender.             *)

\* the names and kinds of the elements of an adapter, in list order
ElementOrder(elements) ==
    [i \in 1..Len(elements) |->
        IF "name" \in DOMAIN elements[i] THEN elements[i].name ELSE elements[i].kind]

\* the names and kinds of declared elements, in declaration order
DeclarationOrder(elements) ==
    [i \in 1..Len(elements) |->
        IF "name" \in DOMAIN elements[i] THEN elements[i].name ELSE elements[i].kind]

\* a render function has been called
RenderCalled == pc \in {"render", "render_attribute", "render_encoder", "render_decoder"}

(* C28: the adapter tree is consumed read-only.  After a call of render,   *)
(* render_attribute, render_encoder or render_decoder, with the calls of   *)
(* qualified_type they make, the FileAdapter and every MessageAdapter are  *)
(* what from_file built: each message's elements are in declaration order  *)
(* and its parent, file and fully_qualified_name are unchanged, whether    *)
(* the call returned or raised.                                            *)
C28_AdapterReadOnly ==
    RenderCalled =>
        /\ file_adapter = from_file(file_ast)
        /\ \A p \in message_paths(file_adapter, <<>>) :
            /\ ElementOrder(message_at(file_adapter, p).elements)
                    = DeclarationOrder(AstElementsAt(file_ast.file_elements, p))
            /\ message_at(file_adapter, p).parent
                    = (IF Len(p) = 1 THEN FileRef ELSE MsgRef(SubSeq(p, 1, Len(p) - 1)))
            /\ message_at(file_adapter, p).file = FileRef
            /\ message_at(file_adapter, p).fully_qualified_name
                    = DotJoin(AstNamesAlong(file_ast.file_elements, p))

\* a message that declares a field before a nested message was rendered
C28_Witness ==
    /\ pc = "render_attribute"
    /\ err = "ok"
    /\ sorted(HostMessage.elements) # HostMessage.elements
    /\ file_adapter = from_file(file_ast)

-----------------------------------------------------------------------------
(* Claims about rollback, checked under SpecRollback.                      *)

\* the context has exited
Exited(m) == manager = m /\ rb_pc = "exited"

\* C29 as stated: on_exit restores the directory upon exit.  Whatever files,
\* links and directories the block created, deleted, modified or replaced,
\* and however it ended, after the context exits the tree equals the tree at
\* entry, the working directory is the one at entry, and the backup is gone.
C29_RestoredOnExit ==
    Exited("on_exit") =>
        /\ directory = entry_tree
        /\ cwd = old_dir
        /\ backup = NoTree

\* C30 as stated: on_exception restores only on failure.  When the block
\* raised, the restore runs with SIGINT and SIGTERM masked, the mask is then
\* what it was, the tree equals the tree at entry and the exception of the
\* block is the one that propagates; when the block did not raise, nothing
\* is raised; either way the backup is gone.
C30_RestoredOnException ==
    manager = "on_exception" =>
        /\ rb_pc \in {"restore", "unmask"} => SIGNALS_TO_BLOCK \subseteq sigmask
        /\ rb_pc = "exited" =>
                /\ backup = NoTree
                /\ exc = block_exc
                /\ block_exc # "none" =>
                        /\ directory = entry_tree
                        /\ sigmask = original_mask

====
